---- MODULE Spec2Model ----
(***************************************************************************)
(* A model of tools/distpartitioning/dataset_utils.py: the collective      *)
(* shuffle _shuffle_data and its driver get_dataset, run by world_size     *)
(* ranks that meet only in all_gather and all-to-all calls.                *)
(*                                                                         *)
(* Python lists are sequences (list[i] is seq[i+1]); lists indexed by a    *)
(* rank are functions over 0..world_size-1.  A tensor is a record          *)
(* [ndim, width, dtype, rows]; a row is [pos, val]: val is the row's       *)
(* content, pos the row's position in the concatenation of the feature's   *)
(* files in file order (a ghost field, never read by the modelled code).   *)
(***************************************************************************)
EXTENDS Integers, Sequences, FiniteSets, TLC

\* Bounds of the model.
MaxWorld == 2
MaxParts == 3
MaxRows == 3
MaxCount == 1
MaxVal == 2

----------------------------------------------------------------------------
\* Arithmetic and list helpers.

Min(a, b) == IF a <= b THEN a ELSE b

Max(a, b) == IF a >= b THEN a ELSE b

RECURSIVE SumSeq(_)
SumSeq(s) == IF s = <<>> THEN 0 ELSE Head(s) + SumSeq(Tail(s))

RECURSIVE Flatten(_)
Flatten(ss) == IF ss = <<>> THEN <<>> ELSE Head(ss) \o Flatten(Tail(ss))

\* range(n) as a list.
PyRange(n) == [i \in 1..n |-> i - 1]

\* The list of a rank-indexed function, in rank order.
AsList(f, n) == [i \in 1..n |-> f[i - 1]]

\* np.cumsum of a list.
np_cumsum(s) == [i \in 1..Len(s) |-> SumSeq(SubSeq(s, 1, i))]

\* One bound of a Python slice over a list of length n.
SliceBound(i, n) == IF i < 0 THEN Max(i + n, 0) ELSE Min(i, n)

\* s[a:b] of Python.
PySlice(s, a, b) ==
    LET lo == SliceBound(a, Len(s))
        hi == SliceBound(b, Len(s))
    IN  IF lo >= hi THEN <<>> ELSE SubSeq(s, lo + 1, hi)

----------------------------------------------------------------------------
\* Element types.

DTypeList ==
    << "float32", "float64", "float16", "uint8", "int8", "int16", "int32",
       "int64", "bool" >>

DATA_TYPE_ID == [t \in { DTypeList[i] : i \in 1..Len(DTypeList) } |->
                    (CHOOSE i \in 1..Len(DTypeList) : DTypeList[i] = t) - 1]

REV_DATA_TYPE_ID == [id \in 0..(Len(DTypeList) - 1) |->
                        CHOOSE t \in DOMAIN DATA_TYPE_ID : DATA_TYPE_ID[t] = id]

\* Two's complement wrap of an integer to w bits.
WrapSigned(v, w) == ((v + 2^(w - 1)) % 2^w) - 2^(w - 1)

\* tensor.to(dtype=t) on one element.  The model's contents are integers of
\* magnitude below 2^11, which every floating type holds exactly.
Cast(v, t) ==
    CASE t = "bool" -> IF v = 0 THEN 0 ELSE 1
      [] t = "uint8" -> v % 2^8
      [] t = "int8" -> WrapSigned(v, 8)
      [] t = "int16" -> WrapSigned(v, 16)
      [] OTHER -> v

----------------------------------------------------------------------------
\* Tensors.

Tensor(nd, w, t, rs) == [ndim |-> nd, width |-> w, dtype |-> t, rows |-> rs]

\* Python's None in a list of tensors.
None == Tensor(0, 0, "None", <<>>)

\* The value of an expression that raised.
Raised == Tensor(-1, 0, "raised", <<>>)

\* np.array([]) through torch.from_numpy: shape (0,), float64.
NpEmptyArray == Tensor(1, 1, "float64", <<>>)

\* torch.zeros((0,), dtype) when data_dim is 1, torch.zeros((0, data_dim), dtype)
\* otherwise.
ZeroRows(data_dim, data_type) ==
    IF data_dim = 1
        THEN Tensor(1, 1, data_type, <<>>)
        ELSE Tensor(2, data_dim, data_type, <<>>)

NumRows(t) == Len(t.rows)

\* data[a:b] on the first axis.
TensorSlice(t, a, b) == [t EXCEPT !.rows = PySlice(t.rows, a, b)]

\* t.to(dtype=dt).
TensorTo(t, dt) ==
    [t EXCEPT !.dtype = dt,
              !.rows = [i \in 1..Len(t.rows) |->
                           [t.rows[i] EXCEPT !.val = Cast(t.rows[i].val, dt)]]]

\* torch.cat leaves out the tensors of shape (0,).
IsLegacyEmpty(t) == t.ndim = 1 /\ t.rows = <<>>

\* torch.cat(ts) along the first axis: the tensors other than those of shape
\* (0,) must agree in rank and width.
torch_cat(ts) ==
    LET kept == SelectSeq(ts, LAMBDA t : ~IsLegacyEmpty(t))
    IN  IF ts = <<>> THEN Raised
        ELSE IF kept = <<>> THEN ts[1]
        ELSE IF \E i \in 1..Len(kept) :
                    \/ kept[i].ndim # kept[1].ndim
                    \/ kept[i].width # kept[1].width
            THEN Raised
        ELSE Tensor(kept[1].ndim, kept[1].width, ts[1].dtype,
                    Flatten([i \in 1..Len(kept) |-> kept[i].rows]))

----------------------------------------------------------------------------
\* utils.py, which the repository imports.

\* rank = partition_id mod world_size.
map_partid_rank(partid, W) == partid % W

\* np.array_split(np.arange(num_files), W): W consecutive blocks, the first
\* num_files % W of them one longer.
generate_read_list(num_files, W) ==
    LET q == num_files \div W
        m == num_files % W
        first(k) == k * q + Min(k, m)
    IN  [k \in 1..W |-> [j \in 1..(first(k) - first(k - 1)) |-> first(k - 1) + j - 1]]

----------------------------------------------------------------------------
\* State.

VARIABLES
    world_size,         \* number of processes in the group
    num_parts,          \* number of partitions
    schema_map,         \* the metadata dictionary every rank is started with
    pc,                 \* per rank: where the rank is
    phase,              \* per rank: the feature loop it is in, "node" or "edge"
    fi,                 \* per rank: index of the feature being shuffled
    data,               \* per rank: _shuffle_data's argument data
    tids,               \* per rank: _shuffle_data's argument tids
    calls,              \* per rank: the collective calls made so far
    local_data,         \* per rank: the slice set aside for the rank itself
    data_output,        \* per rank: what _shuffle_data returned last
    node_features,      \* per rank: dictionary key -> block
    node_feature_tids,  \* per rank: dictionary key -> list of id ranges
    edge_features,      \* per rank: dictionary key -> block
    edge_feature_tids,  \* per rank: dictionary key -> list of id ranges
    edge_datadict,      \* per rank: the four edge columns
    err,                \* per rank: the exception that ended the rank, or ""
    sparse_test         \* the running test of test_elementwise_op.py

vars ==
    << world_size, num_parts, schema_map, pc, phase, fi, data, tids, calls,
       local_data, data_output, node_features, node_feature_tids,
       edge_features, edge_feature_tids, edge_datadict, err, sparse_test >>

Ranks == 0..(world_size - 1)

----------------------------------------------------------------------------
\* _shuffle_data, lines 66-79: the descriptor a rank hands to all_gather.

\* The assertion of line 66.
ShapeAccepted_NonEmpty(d) == d.ndim \in {1, 2} /\ NumRows(d) > 0

ShapeAccepted(d) == d.ndim \in {1, 2}

\* [rows, dimension, element type id]; a 1-D array reports dimension 1.
DataShape(d) ==
    IF d.ndim = 1
        THEN << NumRows(d), 1, DATA_TYPE_ID[d.dtype] >>
        ELSE << NumRows(d), d.width, DATA_TYPE_ID[d.dtype] >>

AllGatherCall(d) == [op |-> "all_gather", payload |-> DataShape(d)]

\* dist.all_gather: call number k of rank r returns once every rank has made
\* its call number k, with the list of what each rank passed.
CollectiveReady(r, op) ==
    LET k == Len(calls[r])
    IN  \A q \in Ranks : Len(calls[q]) >= k /\ calls[q][k].op = op

Gathered(r) == [q \in Ranks |-> calls[q][Len(calls[r])].payload]

----------------------------------------------------------------------------
\* _shuffle_data, lines 82-119: bucketing.

\* Lines 84-85 without the running sums of line 86.
DataLines_Counts(data_shape_output, W) ==
    <<0>> \o [i \in 1..W |-> data_shape_output[i - 1][1]]

\* data_lines of lines 84-86: 0 followed by the running sums of the row counts.
DataLines(data_shape_output, W) ==
    np_cumsum(<<0>> \o [i \in 1..W |-> data_shape_output[i - 1][1]])

\* Line 96 without its second test.
NoOverlap_StartOnly(start, end, global_start, global_end) ==
    start >= global_end

\* Line 96: the partition range does not meet the rank's span.
NoOverlap(start, end, global_start, global_end) ==
    start >= global_end \/ end <= global_start

\* Line 98 without the clamp at 0.
ReadStart_Unclamped(start, global_start) == start - global_start

\* Line 98.
ReadStart(start, global_start) == Max(0, start - global_start)

\* Line 99 without the end of the partition range.
ReadEnd_WholeArray(n, end, global_start) == n

\* Line 99.
ReadEnd(n, end, global_start) == Min(n, end - global_start)

\* Lines 89-102: per target rank the list of slices (<<>> is None).
DataList(d, rank, W, tid, nparts, data_lines) ==
    LET global_start == data_lines[rank + 1]
        global_end == data_lines[rank + 2]
        RECURSIVE loop(_, _)
        loop(local_part_id, data_list) ==
            IF local_part_id >= nparts THEN data_list
            ELSE LET target_rank == map_partid_rank(local_part_id, W)
                     start == tid[local_part_id + 1][1]
                     end == tid[local_part_id + 1][2]
                     read_start == ReadStart(start, global_start)
                     read_end == ReadEnd(NumRows(d), end, global_start)
                 IN  IF NoOverlap(start, end, global_start, global_end)
                         THEN loop(local_part_id + 1, data_list)
                         ELSE loop(local_part_id + 1,
                                   [data_list EXCEPT ![target_rank] =
                                       Append(@, TensorSlice(d, read_start, read_end))])
        none == [t \in 0..(W - 1) |-> <<>>]
    IN  IF NumRows(d) > 0 THEN loop(0, none) ELSE none

\* Lines 103-111 without the cast of line 111.
DataInput_NoCast(data_list, data_dim, data_type, W) ==
    [i \in 0..(W - 1) |->
        IF data_list[i] = <<>>
            THEN ZeroRows(data_dim, data_type)
            ELSE torch_cat(data_list[i])]

\* Lines 103-111: one tensor per target rank, of rank 0's element type.
DataInput(data_list, data_dim, data_type, W) ==
    [i \in 0..(W - 1) |->
        IF data_list[i] = <<>>
            THEN ZeroRows(data_dim, data_type)
            ELSE TensorTo(torch_cat(data_list[i]), data_type)]

\* Lines 82-111 for rank r, from the gathered descriptors.
BucketsOf(d, rank, W, tid, nparts, data_shape_output) ==
    LET data_dim == data_shape_output[0][2]
        data_type == REV_DATA_TYPE_ID[data_shape_output[0][3]]
    IN  DataInput(DataList(d, rank, W, tid, nparts,
                           DataLines(data_shape_output, W)),
                  data_dim, data_type, W)

\* Lines 115-119: what is passed to the exchange, the rank's own entry
\* replaced by a zero-row tensor.
ExchangeInput_KeepsSelf(data_input, rank, data_shape_output) == data_input

ExchangeInput(data_input, rank, data_shape_output) ==
    [data_input EXCEPT ![rank] =
        ZeroRows(data_shape_output[0][2],
                 REV_DATA_TYPE_ID[data_shape_output[0][3]])]

AllToAllCall(data_input) == [op |-> "alltoall", payload |-> data_input]

----------------------------------------------------------------------------
\* gloo_wrapper.alltoallv_cpu, which the repository imports: entry i of the
\* result is what rank i passed for this rank, keeping element type and
\* width; an entry without rows may come back as None.

alltoallv_cpu(r, retain_nones) ==
    [i \in Ranks |->
        LET got == calls[i][Len(calls[r])].payload[r]
        IN  IF retain_nones /\ NumRows(got) = 0 THEN None ELSE got]

\* Lines 123-125 with the own slice put before the received ones.
Reassemble_OwnFirst(received, rank, own, W) ==
    torch_cat(<< own >> \o
              SelectSeq(AsList([received EXCEPT ![rank] = None], W),
                        LAMBDA t : t # None))

\* Lines 123-125 with the own slice appended after the received ones.
Reassemble_OwnLast(received, rank, own, W) ==
    torch_cat(SelectSeq(AsList([received EXCEPT ![rank] = None], W),
                        LAMBDA t : t # None) \o << own >>)

\* Lines 123-125: the own slice goes to index rank, None entries are
\* dropped, the rest is concatenated in index order.
Reassemble(received, rank, own, W) ==
    torch_cat(SelectSeq(AsList([received EXCEPT ![rank] = own], W),
                        LAMBDA t : t # None))

----------------------------------------------------------------------------
\* Contents of the arrays.

\* The content of the row at position g of a feature, before it is stored
\* with an element type.
ContentAt(g) == 254 + g

\* Rows a..b-1 of a feature stored with element type dt.
RowsOf(dt, a, b) ==
    [i \in 1..(b - a) |-> [pos |-> a + i - 1, val |-> Cast(ContentAt(a + i - 1), dt)]]

\* The shapes and element types of the features of the model.
FeatureKinds ==
    { [ndim |-> 1, width |-> 1, dtype |-> "int64"],
      [ndim |-> 2, width |-> 1, dtype |-> "float32"],
      [ndim |-> 2, width |-> 2, dtype |-> "float32"] }

\* The id ranges [start, end) of consecutive partitions of the given sizes.
RangesOf(sizes) ==
    [p \in 1..Len(sizes) |->
        << SumSeq(SubSeq(sizes, 1, p - 1)), SumSeq(SubSeq(sizes, 1, p)) >>]

\* All lists of n numbers in 0..m that sum to at most m.
Splits(n, m) == { s \in [1..n -> 0..m] : SumSeq(s) <= m }

----------------------------------------------------------------------------
\* _shuffle_data on its own: every rank calls it once, on the rows of a
\* consecutive block of one array (blocks in rank order) or, for a rank
\* without rows, on np.array([]).

NoDict == << >>

\* No test of the sparse operators is running.
NoTest == [name |-> "none"]

NoColumns == [src |-> <<>>, dst |-> <<>>, type_eid |-> <<>>, etype |-> <<>>]

ShuffleInit ==
    \E W \in 1..MaxWorld :
    \E P \in W..MaxParts :
    \E lines \in Splits(W, MaxRows) :
    \E sizes \in { s \in Splits(P, MaxRows + 1) :
                      SumSeq(s) \in (SumSeq(lines) - 1)..(SumSeq(lines) + 1) } :
    \E kind \in FeatureKinds :
    \E bare \in { {}, { r \in 0..(W - 1) : lines[r + 1] = 0 } } :
        /\ world_size = W
        /\ num_parts = P
        /\ schema_map = << >>
        /\ pc = [r \in 0..(W - 1) |-> "call"]
        /\ phase = [r \in 0..(W - 1) |-> "none"]
        /\ fi = [r \in 0..(W - 1) |-> 0]
        /\ data = [r \in 0..(W - 1) |->
                      IF r \in bare
                          THEN NpEmptyArray
                          ELSE Tensor(kind.ndim, kind.width, kind.dtype,
                                      RowsOf(kind.dtype,
                                             SumSeq(SubSeq(lines, 1, r)),
                                             SumSeq(SubSeq(lines, 1, r + 1))))]
        /\ tids = [r \in 0..(W - 1) |-> RangesOf(sizes)]
        /\ calls = [r \in 0..(W - 1) |-> << >>]
        /\ local_data = [r \in 0..(W - 1) |-> None]
        /\ data_output = [r \in 0..(W - 1) |-> None]
        /\ node_features = [r \in 0..(W - 1) |-> NoDict]
        /\ node_feature_tids = [r \in 0..(W - 1) |-> NoDict]
        /\ edge_features = [r \in 0..(W - 1) |-> NoDict]
        /\ edge_feature_tids = [r \in 0..(W - 1) |-> NoDict]
        /\ edge_datadict = [r \in 0..(W - 1) |-> NoColumns]
        /\ err = [r \in 0..(W - 1) |-> ""]
        /\ sparse_test = NoTest

datasetVars ==
    << schema_map, phase, fi, node_features, node_feature_tids, edge_features,
       edge_feature_tids, edge_datadict, sparse_test >>

\* Lines 66-79: the shape assertion, then the all_gather call.
ShuffleEnter(r) ==
    /\ pc[r] = "call"
    /\ IF ShapeAccepted(data[r])
           THEN /\ calls' = [calls EXCEPT ![r] = Append(@, AllGatherCall(data[r]))]
                /\ pc' = [pc EXCEPT ![r] = "all_gather"]
                /\ err' = err
           ELSE /\ pc' = [pc EXCEPT ![r] = "raised"]
                /\ err' = [err EXCEPT ![r] = "AssertionError"]
                /\ calls' = calls
    /\ UNCHANGED << world_size, num_parts, data, tids, local_data, data_output >>
    /\ UNCHANGED datasetVars

\* Lines 79-122: all_gather returns; the rank buckets its rows and calls the
\* exchange.
Scatter(r) ==
    /\ pc[r] = "all_gather"
    /\ CollectiveReady(r, "all_gather")
    /\ LET data_shape_output == Gathered(r)
           data_input == BucketsOf(data[r], r, world_size, tids[r], num_parts,
                                   data_shape_output)
       IN  /\ local_data' = [local_data EXCEPT ![r] = data_input[r]]
           /\ calls' = [calls EXCEPT ![r] =
                           Append(@, AllToAllCall(
                               ExchangeInput(data_input, r, data_shape_output)))]
    /\ pc' = [pc EXCEPT ![r] = "alltoall"]
    /\ UNCHANGED << world_size, num_parts, data, tids, data_output, err >>
    /\ UNCHANGED datasetVars

\* Lines 122-127: the exchange returns; the rank assembles its output.
ShuffleReturn(r) ==
    /\ pc[r] = "alltoall"
    /\ phase[r] = "none"
    /\ CollectiveReady(r, "alltoall")
    /\ \E retain_nones \in BOOLEAN :
        LET out == Reassemble(alltoallv_cpu(r, retain_nones), r, local_data[r],
                              world_size)
        IN  IF out = Raised
                THEN /\ pc' = [pc EXCEPT ![r] = "raised"]
                     /\ err' = [err EXCEPT ![r] = "RuntimeError"]
                     /\ data_output' = data_output
                ELSE /\ pc' = [pc EXCEPT ![r] = "done"]
                     /\ data_output' = [data_output EXCEPT ![r] = out]
                     /\ err' = err
    /\ UNCHANGED << world_size, num_parts, data, tids, calls, local_data >>
    /\ UNCHANGED datasetVars

ShuffleNext ==
    \/ \E r \in Ranks : ShuffleEnter(r)
    \/ \E r \in Ranks : Scatter(r)
    \/ \E r \in Ranks : ShuffleReturn(r)

ShuffleSpec == ShuffleInit /\ [][ShuffleNext]_vars

----------------------------------------------------------------------------
\* Vocabulary of the properties of one shuffle.

\* The number of times x occurs in the list s.
Count(s, x) == Cardinality({ i \in 1..Len(s) : s[i] = x })

Elems(s) == { s[i] : i \in 1..Len(s) }

SameBag(s, t) == \A x \in Elems(s) \cup Elems(t) : Count(s, x) = Count(t, x)

AllDone == \A r \in Ranks : pc[r] = "done"

\* The rows over all ranks, in rank order.
RowsOverRanks(f) == Flatten([i \in 1..world_size |-> f[i - 1].rows])

TotalRows == Len(RowsOverRanks(data))

\* The id-range table is a tiling of [0, n).
Tiles(table, n) ==
    /\ table[1][1] = 0
    /\ table[Len(table)][2] = n
    /\ \A p \in 1..Len(table) : table[p][1] <= table[p][2]
    /\ \A p \in 1..(Len(table) - 1) : table[p][2] = table[p + 1][1]

\* Rank q's array holds the rows at the positions after those of the ranks
\* before it.
BlocksInRankOrder ==
    \A q \in Ranks : \A i \in 1..NumRows(data[q]) :
        data[q].rows[i].pos =
            Len(Flatten([j \in 1..q |-> data[j - 1].rows])) + i - 1

\* Position g lies in a partition range that rank r owns.
OwnedPosition(table, g, r) ==
    \E p \in 1..Len(table) :
        /\ table[p][1] <= g
        /\ g < table[p][2]
        /\ map_partid_rank(p - 1, world_size) = r

Positions(t) == { t.rows[i].pos : i \in 1..NumRows(t) }

\* What rank s holds for target t once it has bucketed its rows.
Bucket(s, t) ==
    IF t = s THEN local_data[s] ELSE calls[s][Len(calls[s])].payload[t]

Bucketed(s) == pc[s] \in {"alltoall", "done"}

----------------------------------------------------------------------------
\* C1: when the ranks' arrays are consecutive blocks in rank order and the
\* id-range table tiles [0, total rows), the rows of the outputs of all ranks
\* are the rows of the inputs of all ranks as a multiset once every rank has
\* finished the shuffle.
C1_NoLossNoDuplication ==
    (AllDone /\ BlocksInRankOrder /\ Tiles(tids[0], TotalRows))
        => SameBag(RowsOverRanks(data_output), RowsOverRanks(data))

\* Rows moved in both directions between two ranks under a tiling table.
C1_Witness ==
    /\ AllDone
    /\ world_size >= 2
    /\ num_parts > world_size
    /\ BlocksInRankOrder
    /\ Tiles(tids[0], TotalRows)
    /\ Positions(data_output[0]) \cap Positions(data[1]) # {}
    /\ Positions(data_output[1]) \cap Positions(data[0]) # {}

\* C2: after the shuffle rank r's output holds the row at position g exactly
\* when g lies in a partition range owned by r; a sender's bucket for a target
\* is the overlap of its span with the ranges the target owns.
C2_RowsReachOwners ==
    /\ AllDone =>
          \A r \in Ranks : \A g \in 0..(TotalRows - 1) :
              (g \in Positions(data_output[r])) <=> OwnedPosition(tids[r], g, r)
    /\ \A s \in Ranks : Bucketed(s) =>
          \A t \in Ranks :
              Positions(Bucket(s, t)) =
                  { g \in Positions(data[s]) : OwnedPosition(tids[s], g, t) }

\* A sender none of whose rows lie in a range of the other rank, and one
\* whose rows are split between the two.
C2_Witness ==
    /\ AllDone
    /\ world_size = 2
    /\ \E s \in Ranks : \E t \in Ranks :
          /\ s # t
          /\ NumRows(data[s]) > 0
          /\ Positions(Bucket(s, t)) = {}
    /\ \E s \in Ranks :
          /\ Positions(Bucket(s, 0)) # {}
          /\ Positions(Bucket(s, 1)) # {}

\* The rows of source rank i that are destined to rank r, in the order of
\* i's array, as they arrive.
Contribution(i, r) ==
    TensorTo(
        [data[i] EXCEPT !.rows =
            SelectSeq(data[i].rows, LAMBDA x : OwnedPosition(tids[i], x.pos, r))],
        data[0].dtype).rows

\* C8: a rank's output is the concatenation, in ascending source rank, of
\* what each source rank holds for it (its own slice at its own index), each
\* contribution in the order of the source's array.
C8_OrderedBySourceRank ==
    \A r \in Ranks : pc[r] = "done" =>
        data_output[r].rows =
            Flatten([i \in 1..world_size |-> Contribution(i - 1, r)])

\* A rank whose output joins rows of its own with at least two rows
\* of another rank.
C8_Witness ==
    /\ AllDone
    /\ \E r \in Ranks : \E i \in Ranks :
          /\ i # r
          /\ Contribution(r, r) # <<>>
          /\ Len(Contribution(i, r)) >= 2
          /\ num_parts > world_size

\* C9: every tensor a rank passes to the exchange or sets aside has the
\* element type rank 0 reported, every zero-row tensor among them has the
\* shape made from rank 0's reported dimension, every output has rank 0's
\* element type, and no rank raises.
C9_Rank0ElementType ==
    /\ \A s \in Ranks : Bucketed(s) =>
          \A t \in Ranks :
              /\ Bucket(s, t).dtype = data[0].dtype
              /\ calls[s][Len(calls[s])].payload[t].dtype = data[0].dtype
              /\ (NumRows(data[s]) = 0 \/ t = s) =>
                    calls[s][Len(calls[s])].payload[t] =
                        ZeroRows(DataShape(data[0])[2], data[0].dtype)
    /\ \A r \in Ranks :
          /\ pc[r] = "done" => data_output[r].dtype = data[0].dtype
          /\ pc[r] # "raised"

\* Rank 0 passed np.array([]), another rank holds rows of another element
\* type, and the outputs are float64.
C9_Witness ==
    /\ AllDone
    /\ data[0] = NpEmptyArray
    /\ \E r \in Ranks :
          /\ NumRows(data[r]) > 0
          /\ data[r].dtype # "float64"
          /\ NumRows(data_output[r]) > 0
          /\ data_output[r].dtype = "float64"

----------------------------------------------------------------------------
(* get_dataset.  The schema is a record

     node_type, num_nodes_per_chunk, node_data,
     edge_type, num_edges_per_chunk, edge_data, edges

   The nested dictionaries node_data and edge_data are kept as the sequence
   of their (type, feature) entries in iteration order, "edges" as the
   sequence of its entries.  A file is described by the number of rows it
   holds; the row at position g of a feature's files, counted over the files
   in schema order, has the content ContentAt(g).  An edge type name is the
   sequence of its ":"-separated tokens. *)

\* utils.get_idranges(names, counts, num_chunks): for every type the
\* num_chunks contiguous id-ranges that group its chunks, and the type's
\* global offset (the total count of the types before it).  It fails when
\* num_chunks exceeds the number of chunks of the schema.
IdRangesAccepted(counts, num_chunks) ==
    \A i \in 1..Len(counts) : num_chunks <= Len(counts[i])

ChunkRanges(cnt, num_chunks) ==
    LET groups == generate_read_list(Len(cnt), num_chunks)
    IN  [p \in 1..num_chunks |->
            LET g == groups[p]
            IN  << SumSeq(SubSeq(cnt, 1, g[1])),
                   SumSeq(SubSeq(cnt, 1, g[Len(g)] + 1)) >>]

get_idranges(names, counts, num_chunks) ==
    [ranges  |-> [n \in { names[i] : i \in 1..Len(names) } |->
                    LET i == CHOOSE i \in 1..Len(names) : names[i] = n
                    IN  ChunkRanges(counts[i], num_chunks)],
     offsets |-> [n \in { names[i] : i \in 1..Len(names) } |->
                    LET i == CHOOSE i \in 1..Len(names) : names[i] = n
                    IN  SumSeq([j \in 1..(i - 1) |-> SumSeq(counts[j])])]]

node_tids == get_idranges(schema_map.node_type,
                          schema_map.num_nodes_per_chunk, num_parts).ranges

ntype_gnid_offset == get_idranges(schema_map.node_type,
                                  schema_map.num_nodes_per_chunk,
                                  num_parts).offsets

edge_tids == get_idranges(schema_map.edge_type,
                          schema_map.num_edges_per_chunk, num_parts).ranges

\* Lines 265-268 and 399-402: the formats a feature may have.
FormatAccepted(feat_data) == feat_data.format \in {"numpy", "parquet"}

\* The position, over a feature's files, of the first row of file idx.
FileStart(files, idx) == SumSeq(SubSeq(files, 1, idx))

\* array_readwriter's read of file idx of a feature.
ReadFile(feat_data, idx) ==
    Tensor(feat_data.kind.ndim, feat_data.kind.width, feat_data.kind.dtype,
           RowsOf(feat_data.kind.dtype, FileStart(feat_data.files, idx),
                  FileStart(feat_data.files, idx + 1)))

np_concatenate(ts) ==
    IF ts = <<>> THEN Raised
    ELSE Tensor(ts[1].ndim, ts[1].width, ts[1].dtype,
                Flatten([i \in 1..Len(ts) |-> ts[i].rows]))

\* Lines 278-292 and 412-426: the rows a rank reads of a feature.
ReadFeature(feat_data, rank, W) ==
    LET read_list == generate_read_list(Len(feat_data.files), W)
        mine == read_list[rank + 1]
        node_data == [k \in 1..Len(mine) |-> ReadFile(feat_data, mine[k])]
    IN  IF Len(node_data) > 0 THEN np_concatenate(node_data)
        ELSE NpEmptyArray

\* Lines 309 and 445: node_data[offset : offset + end - start].
BlockOf_FromZero(out, offset, start, end) == TensorSlice(out, 0, end - start)

BlockOf(out, offset, start, end) ==
    TensorSlice(out, offset, offset + end - start)

\* Lines 303-315 with the key of line 310 made of local_part_id % world_size.
RECURSIVE CollectBlocks_KeyMod(_, _, _, _, _, _, _, _)
CollectBlocks_KeyMod(out, rank, W, table, tname, fname, local_part_id, st) ==
    IF local_part_id > Len(table) - 1 THEN st
    ELSE IF map_partid_rank(local_part_id, W) = rank
         THEN LET start == table[local_part_id + 1][1]
                  end == table[local_part_id + 1][2]
                  nfeat == BlockOf(out, st.offset, start, end)
                  data_key == << tname, fname, local_part_id % W >>
              IN  CollectBlocks_KeyMod(out, rank, W, table, tname, fname,
                      local_part_id + 1,
                      [offset |-> st.offset + end - start,
                       features |-> (data_key :> nfeat) @@ st.features,
                       feature_tids |->
                           (data_key :> << table[local_part_id + 1] >>)
                               @@ st.feature_tids])
         ELSE CollectBlocks_KeyMod(out, rank, W, table, tname, fname,
                                   local_part_id + 1, st)

\* Lines 303-315 and 439-451: the output of the shuffle is cut into the
\* blocks of the partitions the rank owns, with a running offset.
RECURSIVE CollectBlocks(_, _, _, _, _, _, _, _)
CollectBlocks(out, rank, W, table, tname, fname, local_part_id, st) ==
    IF local_part_id > Len(table) - 1 THEN st
    ELSE IF map_partid_rank(local_part_id, W) = rank
         THEN LET start == table[local_part_id + 1][1]
                  end == table[local_part_id + 1][2]
                  nfeat == BlockOf(out, st.offset, start, end)
                  data_key == << tname, fname, local_part_id \div W >>
              IN  CollectBlocks(out, rank, W, table, tname, fname,
                      local_part_id + 1,
                      [offset |-> st.offset + end - start,
                       features |-> (data_key :> nfeat) @@ st.features,
                       feature_tids |->
                           (data_key :> << table[local_part_id + 1] >>)
                               @@ st.feature_tids])
         ELSE CollectBlocks(out, rank, W, table, tname, fname,
                            local_part_id + 1, st)

\* Lines 318-346 and 454-467: every block has the size of its range.
BlockSizesAccepted_KeysOnly(features, feature_tids) ==
    DOMAIN features = DOMAIN feature_tids

BlockSizesAccepted(features, feature_tids) ==
    \A k \in DOMAIN features :
        feature_tids[k][1][2] - feature_tids[k][1][1] = NumRows(features[k])

\* Lines 536-537: the tokens of a canonical edge type name.
TokensAccepted(tokens) == Len(tokens) = 3

\* Lines 545-550: the files of an edge type a rank reads, those of the
\* partitions it owns, in partition order.
EdgeFilesOf_ByRank(etype_info, rank, W, nparts) ==
    generate_read_list(Len(etype_info.files), W)[rank + 1]

\* Lines 545-550 without the test of line 549: the files of every partition.
EdgeFilesOf_EveryPartition(etype_info, rank, W, nparts) ==
    Flatten(generate_read_list(Len(etype_info.files), nparts))

EdgeFilesOf(etype_info, rank, W, nparts) ==
    LET read_list == generate_read_list(Len(etype_info.files), nparts)
    IN  Flatten([p \in 1..nparts |->
            IF map_partid_rank(p - 1, W) = rank THEN read_list[p]
            ELSE <<>>])

\* The rows of edge file idx: the row at position g of the type's files has
\* the per-type ids g (source) and 2g mod 3 (destination).
EdgeFileRows(etype_info, idx) ==
    LET a == FileStart(etype_info.files, idx)
        b == FileStart(etype_info.files, idx + 1)
    IN  [i \in 1..(b - a) |-> [src |-> a + i - 1,
                                dst |-> (2 * (a + i - 1)) % 3]]

\* Lines 560-589: what reading file idx appends to src_ids and dst_ids: one
\* array per batch of a csv file, one array for a parquet file.
EdgeFileArrays(etype_info, idx) ==
    LET rows == EdgeFileRows(etype_info, idx)
    IN  IF etype_info.format = "csv"
            THEN IF rows = <<>> THEN <<>> ELSE << rows >>
            ELSE << rows >>

\* Lines 560-593: the formats an edge file is read in.
EdgeFormatAccepted_Any(etype_info) == etype_info.format = etype_info.format

EdgeFormatAccepted(etype_info) == etype_info.format \in {"csv", "parquet"}

\* Lines 610-618: the type-relative edge ids of the partitions a rank owns.
TypeEids(table, rank, W) ==
    Flatten([p \in 1..Len(table) |->
        IF map_partid_rank(p - 1, W) = rank
            THEN [i \in 1..(table[p][2] - table[p][1]) |->
                     table[p][1] + i - 1]
            ELSE <<>>])

\* Lines 629-640: the shapes of the four columns agree.
ColumnsAccepted_SrcDstOnly(cols) == Len(cols.src) = Len(cols.dst)

ColumnsAccepted(cols) ==
    /\ Len(cols.src) = Len(cols.dst)
    /\ Len(cols.dst) = Len(cols.type_eid)
    /\ Len(cols.type_eid) = Len(cols.etype)

\* Lines 599-604: the per-type node ids of the rows of an edge type, moved
\* by the global offsets of its source and destination node types.
GlobalSrcIds(rows, tokens) ==
    [k \in 1..Len(rows) |-> rows[k].src + ntype_gnid_offset[tokens[1]]]

GlobalDstIds_SourceOffset(rows, tokens) ==
    [k \in 1..Len(rows) |-> rows[k].dst + ntype_gnid_offset[tokens[1]]]

GlobalDstIds(rows, tokens) ==
    [k \in 1..Len(rows) |-> rows[k].dst + ntype_gnid_offset[tokens[3]]]

\* Lines 534-618: reading the edge types from entry i on.  The result is the
\* error raised, or the lists of per-type arrays of the four columns.
RECURSIVE ReadEdges(_, _, _)
ReadEdges(rank, i, lists) ==
    IF i > Len(schema_map.edges) THEN [err |-> "", lists |-> lists]
    ELSE
    LET etype_info == schema_map.edges[i]
        tokens == etype_info.etype_name
        idxs == EdgeFilesOf(etype_info, rank, world_size, num_parts)
        arrays == Flatten([k \in 1..Len(idxs) |->
                              EdgeFileArrays(etype_info, idxs[k])])
        rows == Flatten(arrays)
        known == { schema_map.edge_type[k] :
                       k \in 1..Len(schema_map.edge_type) }
    IN  IF ~TokensAccepted(tokens)
            THEN [err |-> "AssertionError", lists |-> lists]
        ELSE IF idxs # <<>> /\ ~EdgeFormatAccepted(etype_info)
            THEN [err |-> "ValueError", lists |-> lists]
        ELSE IF arrays = <<>>
            THEN [err |-> "ValueError", lists |-> lists]
        ELSE IF \/ tokens[1] \notin DOMAIN ntype_gnid_offset
                \/ tokens[3] \notin DOMAIN ntype_gnid_offset
                \/ tokens \notin known
            THEN [err |-> "KeyError", lists |-> lists]
        ELSE ReadEdges(rank, i + 1,
                [src |-> Append(lists.src, GlobalSrcIds(rows, tokens)),
                 dst |-> Append(lists.dst, GlobalDstIds(rows, tokens)),
                 etype |-> Append(lists.etype,
                        [k \in 1..Len(rows) |->
                            (CHOOSE n \in 1..Len(schema_map.edge_type) :
                                schema_map.edge_type[n] = tokens) - 1]),
                 type_eid |-> Append(lists.type_eid,
                        TypeEids(edge_tids[tokens], rank, world_size))])

\* Lines 512-640: the edges of a rank: the error raised, or the columns.
EdgesOf(rank) ==
    LET res == ReadEdges(rank, 1, NoColumns)
        cols == [src |-> Flatten(res.lists.src),
                 dst |-> Flatten(res.lists.dst),
                 type_eid |-> Flatten(res.lists.type_eid),
                 etype |-> Flatten(res.lists.etype)]
    IN  IF res.err # "" THEN [err |-> res.err, cols |-> NoColumns]
        ELSE IF res.lists.src = <<>>
            THEN [err |-> "ValueError", cols |-> NoColumns]
        ELSE IF ~ColumnsAccepted(cols)
            THEN [err |-> "AssertionError", cols |-> NoColumns]
        ELSE [err |-> "", cols |-> cols]

\* Lines 261 and 398: schema_map[...] of a key the schema has.
KeyAccepted(key) == key \notin schema_map.missing

\* Lines 261-264 and 396-398: the features of a phase, in schema order.  An
\* entry that is None or an empty dictionary is the empty sequence.
FeatureList(ph) ==
    IF ph = "node" THEN schema_map.node_data ELSE schema_map.edge_data

\* Lines 272-274 with the test made on the rows the rank read.
SkipsFeature_NoRows(feat_data, rank, W) ==
    \/ Len(feat_data.files) = 0
    \/ NumRows(ReadFeature(feat_data, rank, W)) = 0

\* Lines 272-274 and 405-407: a feature without files is skipped.
SkipsFeature_NothingAssigned(feat_data, rank, W) ==
    Len(generate_read_list(Len(feat_data.files), W)[rank + 1]) = 0

SkipsFeature(feat_data, rank, W) == Len(feat_data.files) = 0

\* Lines 299 and 435: the id-ranges handed to the shuffle.
TableOf(ph, tname) ==
    IF ph = "node" THEN node_tids[tname] ELSE edge_tids[tname]

NoFeatures ==
    [nf |-> NoDict, nft |-> NoDict, ef |-> NoDict, eft |-> NoDict]

\* Where a rank stands when it stops running: its position, the array and
\* the id-ranges it enters a shuffle with, its dictionaries and columns.
Frame(p, ph, i, enter, d, table, st, cols, e) ==
    [pc |-> p, phase |-> ph, fi |-> i, enter |-> enter, data |-> d,
     table |-> table, st |-> st, cols |-> cols, err |-> e]

Raise(ph, i, st, e) ==
    Frame("raised", ph, i, FALSE, None, <<>>, st, NoColumns, e)

\* Lines 261-654 from feature i of phase ph on: a rank runs until it calls
\* the all_gather of the next feature it shuffles, raises, or returns.
RECURSIVE Advance(_, _, _, _)
Advance(rank, ph, i, st) ==
    LET feats == FeatureList(ph)
    IN  IF i > Len(feats)
        THEN IF ph = "node"
             THEN IF ~BlockSizesAccepted(st.nf, st.nft)
                      THEN Raise(ph, i, st, "AssertionError")
                  ELSE IF ~IdRangesAccepted(schema_map.num_edges_per_chunk,
                                            num_parts)
                      THEN Raise(ph, i, st, "ConfigurationError")
                  ELSE IF ~KeyAccepted("edge_data")
                      THEN Raise(ph, i, st, "KeyError")
                  ELSE Advance(rank, "edge", 1, st)
             ELSE IF ~BlockSizesAccepted(st.ef, st.eft)
                      THEN Raise(ph, i, st, "AssertionError")
                  ELSE LET res == EdgesOf(rank)
                       IN  IF res.err # ""
                               THEN Raise("edges", i, st, res.err)
                           ELSE Frame("returned", "edges", i, FALSE, None,
                                      <<>>, st, res.cols, "")
        ELSE IF ~FormatAccepted(feats[i])
                 THEN Raise(ph, i, st, "AssertionError")
             ELSE IF SkipsFeature(feats[i], rank, world_size)
                 THEN Advance(rank, ph, i + 1, st)
             ELSE LET d == ReadFeature(feats[i], rank, world_size)
                  IN  IF ~ShapeAccepted(d)
                          THEN Raise(ph, i, st, "AssertionError")
                      ELSE Frame("all_gather", ph, i, TRUE, d,
                                 TableOf(ph, feats[i].tname), st,
                                 NoColumns, "")

\* The assignments that bring rank r to frame F.
Apply(r, F) ==
    /\ pc' = [pc EXCEPT ![r] = F.pc]
    /\ phase' = [phase EXCEPT ![r] = F.phase]
    /\ fi' = [fi EXCEPT ![r] = F.fi]
    /\ data' = IF F.enter THEN [data EXCEPT ![r] = F.data] ELSE data
    /\ tids' = IF F.enter THEN [tids EXCEPT ![r] = F.table] ELSE tids
    /\ calls' = IF F.enter
                    THEN [calls EXCEPT ![r] = Append(@, AllGatherCall(F.data))]
                    ELSE calls
    /\ node_features' = [node_features EXCEPT ![r] = F.st.nf]
    /\ node_feature_tids' = [node_feature_tids EXCEPT ![r] = F.st.nft]
    /\ edge_features' = [edge_features EXCEPT ![r] = F.st.ef]
    /\ edge_feature_tids' = [edge_feature_tids EXCEPT ![r] = F.st.eft]
    /\ edge_datadict' = [edge_datadict EXCEPT ![r] = F.cols]
    /\ err' = [err EXCEPT ![r] = F.err]
    /\ UNCHANGED << world_size, num_parts, schema_map, sparse_test >>

\* Lines 252-301: get_dataset up to its first collective call.
Start(r) ==
    /\ pc[r] = "start"
    /\ IF ~IdRangesAccepted(schema_map.num_nodes_per_chunk, num_parts)
           THEN Apply(r, Raise("node", 0, NoFeatures, "ConfigurationError"))
       ELSE IF ~KeyAccepted("node_data")
           THEN Apply(r, Raise("node", 0, NoFeatures, "KeyError"))
       ELSE Apply(r, Advance(r, "node", 1, NoFeatures))
    /\ UNCHANGED << local_data, data_output >>

\* Lines 122-127 and 303-315 (439-451), then on to the next collective call:
\* the exchange returns, the output is cut into the blocks of the owned
\* partitions and the rank goes on.
Collect(r) ==
    /\ pc[r] = "alltoall"
    /\ phase[r] \in {"node", "edge"}
    /\ CollectiveReady(r, "alltoall")
    /\ \E retain_nones \in BOOLEAN :
        LET out == Reassemble(alltoallv_cpu(r, retain_nones), r, local_data[r],
                              world_size)
            feat == FeatureList(phase[r])[fi[r]]
            st == [nf |-> node_features[r], nft |-> node_feature_tids[r],
                   ef |-> edge_features[r], eft |-> edge_feature_tids[r]]
            got == CollectBlocks(out, r, world_size, tids[r], feat.tname,
                       feat.fname, 0,
                       IF phase[r] = "node"
                           THEN [offset |-> 0, features |-> st.nf,
                                 feature_tids |-> st.nft]
                           ELSE [offset |-> 0, features |-> st.ef,
                                 feature_tids |-> st.eft])
            after == IF phase[r] = "node"
                         THEN [st EXCEPT !.nf = got.features,
                                         !.nft = got.feature_tids]
                         ELSE [st EXCEPT !.ef = got.features,
                                         !.eft = got.feature_tids]
        IN  IF out = Raised
                THEN /\ Apply(r, Raise(phase[r], fi[r], st, "RuntimeError"))
                     /\ data_output' = data_output
                ELSE /\ Apply(r, Advance(r, phase[r], fi[r] + 1, after))
                     /\ data_output' = [data_output EXCEPT ![r] = out]
    /\ UNCHANGED local_data

----------------------------------------------------------------------------
(* The schemas get_dataset is run on: node types A and B, one edge type
   A:r:B, up to two features of A and one of the edge type.  The chunks of A
   and of the edge type hold c, c + 1, c, ... rows. *)

CountsOf(num_chunks, c) == [i \in 1..num_chunks |-> c + ((i - 1) % 2)]

BalancedSplit(n, k) ==
    [j \in 1..k |-> (n \div k) + (IF j <= n % k THEN 1 ELSE 0)]

EdgeTypeName == << "A", "r", "B" >>

\* The file list that stands for a feature the schema does not have.
Absent == << -1 >>

\* The files of the feature x of A: none, one, or one per partition, holding
\* together one row less, as many rows, or one row more than A has nodes.
FileLayouts(P, total) ==
    { <<>> } \cup { BalancedSplit(total + d, n) :
                      n \in {1, P}, d \in { e \in {-1, 0, 1} : total + e >= 0 } }

\* The feature y of A: absent, without files, or one file per chunk.
SecondLayouts(counts) == { Absent, <<>>, counts }

\* The feature w of the edge type: absent, one file per chunk, or files that
\* hold one row less.
EdgeFeatureLayouts(P, counts) ==
    { Absent, counts, BalancedSplit(Max(SumSeq(counts) - 1, 0), P) }

\* The edge files: none, one, or one per chunk; as many rows as the schema
\* counts, or one more in the last file.  A csv file holds at least one row.
EdgeLayouts(counts) ==
    LET n == Len(counts)
        total == SumSeq(counts)
    IN  { [format |-> "parquet", files |-> <<>>] }
        \cup { [format |-> "parquet", files |-> << total + d >>] :
                  d \in {0, 1} }
        \cup { [format |-> "parquet",
                files |-> [counts EXCEPT ![n] = @ + d]] : d \in {0, 1} }
        \cup { [format |-> "csv", files |-> counts] :
                  x \in { y \in {0} : \A i \in 1..n : counts[i] > 0 } }

FeatureOf(tname, fname, format, kind, files) ==
    [tname |-> tname, fname |-> fname, format |-> format, kind |-> kind,
     files |-> files]

SchemaOf(counts, x, y, w, edges) ==
    [missing |-> {},
     node_type |-> << "A", "B" >>,
     num_nodes_per_chunk |-> << counts, [i \in 1..Len(counts) |-> 1] >>,
     node_data |->
         (IF x = Absent THEN <<>>
          ELSE << FeatureOf("A", "x", "numpy",
                      [ndim |-> 2, width |-> 2, dtype |-> "float32"], x) >>)
         \o (IF y = Absent THEN <<>>
             ELSE << FeatureOf("A", "y", "parquet",
                      [ndim |-> 1, width |-> 1, dtype |-> "int64"], y) >>),
     edge_type |-> << EdgeTypeName >>,
     num_edges_per_chunk |-> << counts >>,
     edge_data |->
         IF w = Absent THEN <<>>
         ELSE << FeatureOf(EdgeTypeName, "w", "numpy",
                     [ndim |-> 2, width |-> 1, dtype |-> "float32"], w) >>,
     edges |-> << [etype_name |-> EdgeTypeName, format |-> edges.format,
                   files |-> edges.files] >>]

Init ==
    \E W \in 1..MaxWorld : \E P \in W..MaxParts :
    \E num_chunks \in { n \in {P - 1, P} : n >= 1 } :
    \E c \in 0..MaxCount :
    LET counts == CountsOf(num_chunks, c) IN
    \E x \in FileLayouts(P, SumSeq(counts)) :
    \E y \in SecondLayouts(counts) :
    \E w \in EdgeFeatureLayouts(P, counts) :
    \E edges \in EdgeLayouts(counts) :
        /\ num_chunks < P =>
              /\ x = counts /\ y = Absent /\ w = Absent
              /\ edges = [format |-> "parquet", files |-> counts]
        /\ world_size = W
        /\ num_parts = P
        /\ schema_map = SchemaOf(counts, x, y, w, edges)
        /\ pc = [r \in 0..(W - 1) |-> "start"]
        /\ phase = [r \in 0..(W - 1) |-> "node"]
        /\ fi = [r \in 0..(W - 1) |-> 1]
        /\ data = [r \in 0..(W - 1) |-> None]
        /\ tids = [r \in 0..(W - 1) |-> <<>>]
        /\ calls = [r \in 0..(W - 1) |-> << >>]
        /\ local_data = [r \in 0..(W - 1) |-> None]
        /\ data_output = [r \in 0..(W - 1) |-> None]
        /\ node_features = [r \in 0..(W - 1) |-> NoDict]
        /\ node_feature_tids = [r \in 0..(W - 1) |-> NoDict]
        /\ edge_features = [r \in 0..(W - 1) |-> NoDict]
        /\ edge_feature_tids = [r \in 0..(W - 1) |-> NoDict]
        /\ edge_datadict = [r \in 0..(W - 1) |-> NoColumns]
        /\ err = [r \in 0..(W - 1) |-> ""]
        /\ sparse_test = NoTest

Next ==
    \/ \E r \in Ranks : Start(r)
    \/ \E r \in Ranks : Scatter(r)
    \/ \E r \in Ranks : Collect(r)

Spec == Init /\ [][Next]_vars

----------------------------------------------------------------------------
\* Vocabulary of the properties of get_dataset.

\* The rows the files of a feature hold, in file order.
Original(feat) == RowsOf(feat.kind.dtype, 0, SumSeq(feat.files))

OwnedParts(r) ==
    { p \in 0..(num_parts - 1) : map_partid_rank(p, world_size) = r }

PhaseNo(ph) == CASE ph = "node" -> 1 [] ph = "edge" -> 2 [] OTHER -> 3

\* Rank r has stored the blocks of feature i of phase ph.
Passed(r, ph, i) ==
    /\ pc[r] # "start"
    /\ \/ PhaseNo(phase[r]) > PhaseNo(ph)
       \/ phase[r] = ph /\ fi[r] > i

FeaturesOf(r, ph) == IF ph = "node" THEN node_features[r] ELSE edge_features[r]

FeatureTidsOf(r, ph) ==
    IF ph = "node" THEN node_feature_tids[r] ELSE edge_feature_tids[r]

Shuffled(ph, i) == Len(FeatureList(ph)[i].files) > 0

\* The features that are shuffled, as (phase, index), in schema order.
ShuffledFeatures ==
    SelectSeq([i \in 1..Len(schema_map.node_data) |-> << "node", i >>],
              LAMBDA e : Shuffled(e[1], e[2]))
    \o SelectSeq([i \in 1..Len(schema_map.edge_data) |-> << "edge", i >>],
                 LAMBDA e : Shuffled(e[1], e[2]))

\* The number, from 1, of the shuffle of feature i of phase ph.
ShuffleNo(ph, i) ==
    CHOOSE k \in 1..Len(ShuffledFeatures) : ShuffledFeatures[k] = << ph, i >>

ExpectedCalls ==
    Flatten([k \in 1..Len(ShuffledFeatures) |-> << "all_gather", "alltoall" >>])

OpsOf(r) == [k \in 1..Len(calls[r]) |-> calls[r][k].op]

IsPrefix(s, t) == Len(s) <= Len(t) /\ s = SubSeq(t, 1, Len(s))

NothingAssigned(feat, r) ==
    generate_read_list(Len(feat.files), world_size)[r + 1] = <<>>

\* C3: for every node or edge feature and every partition p a rank owns, the
\* block the rank stores under (type, feature, p \div world_size) is the slice
\* start_p .. end_p - 1 of the rows the feature's files hold, in that order,
\* its id-range is the range of p, and a rank that is past the feature has
\* stored the block.
C3_RoundTrip ==
    \A r \in Ranks : \A ph \in {"node", "edge"} :
        \A i \in 1..Len(FeatureList(ph)) :
            LET feat == FeatureList(ph)[i]
                table == TableOf(ph, feat.tname)
            IN  \A p \in OwnedParts(r) :
                    LET key == << feat.tname, feat.fname, p \div world_size >>
                    IN  /\ (Shuffled(ph, i) /\ Passed(r, ph, i))
                               => key \in DOMAIN FeaturesOf(r, ph)
                        /\ key \in DOMAIN FeaturesOf(r, ph) =>
                             /\ FeaturesOf(r, ph)[key].rows =
                                    PySlice(Original(feat), table[p + 1][1],
                                            table[p + 1][2])
                             /\ FeatureTidsOf(r, ph)[key] = << table[p + 1] >>

\* A rank of two has returned with two non-empty blocks of the feature x and
\* a non-empty block of the edge feature w; the second block of x is made of
\* rows another rank read.
C3_Witness ==
    \E r \in Ranks :
        /\ pc[r] = "returned"
        /\ world_size = 2
        /\ { << "A", "x", 0 >>, << "A", "x", 1 >> } \subseteq
               DOMAIN node_features[r]
        /\ NumRows(node_features[r][<< "A", "x", 0 >>]) > 0
        /\ NumRows(node_features[r][<< "A", "x", 1 >>]) > 0
        /\ \A k \in 1..NumRows(node_features[r][<< "A", "x", 1 >>]) :
               node_features[r][<< "A", "x", 1 >>].rows[k].pos \notin
                   Positions(ReadFeature(schema_map.node_data[1], r, 2))
        /\ << EdgeTypeName, "w", 0 >> \in DOMAIN edge_features[r]
        /\ NumRows(edge_features[r][<< EdgeTypeName, "w", 0 >>]) > 0

\* C4: the collective calls a rank has issued are the first calls of the
\* sequence the schema gives (an all_gather, then an all-to-all, for each
\* feature with at least one file, node features first), whatever the rank
\* read; a rank that returns has issued all of them.
C4_SameCollectiveSequence ==
    \A r \in Ranks :
        /\ IsPrefix(OpsOf(r), ExpectedCalls)
        /\ pc[r] = "returned" => OpsOf(r) = ExpectedCalls
        /\ pc[r] \in {"all_gather", "alltoall"} =>
               /\ calls[r] # <<>>
               /\ calls[r][Len(calls[r])].op = pc[r]
               /\ ShuffledFeatures[(Len(calls[r]) + 1) \div 2] =
                      << phase[r], fi[r] >>

\* Two ranks have returned after the shuffles of a node feature and of an edge
\* feature; a feature without files was passed over, and one rank entered a
\* shuffle with an empty array.
C4_Witness ==
    /\ world_size = 2
    /\ \A r \in Ranks : pc[r] = "returned" /\ Len(calls[r]) = 4
    /\ \E i \in 1..Len(schema_map.node_data) : ~Shuffled("node", i)
    /\ \E r \in Ranks : calls[r][1].payload[1] = 0
    /\ \E r \in Ranks : calls[r][1].payload[1] > 0

\* C5: no partial success: no rank has terminated with a fatal error while
\* another rank has returned successfully or waits in a later collective.
C5_NoPartialSuccess ==
    \A r, q \in Ranks :
        pc[r] = "raised" =>
            /\ pc[q] # "returned"
            /\ ~(pc[q] \in {"all_gather", "alltoall"}
                 /\ Len(calls[q]) > Len(calls[r]))

\* The senders of feature (ph, i) that were assigned files.
SendersWithFiles(feat) ==
    SelectSeq(PyRange(world_size), LAMBDA s : ~NothingAssigned(feat, s))

\* What rank q assembles of feature (ph, i) when only the ranks that were
\* assigned files send to it.
OutputWithoutIdle(ph, i, q) ==
    LET feat == FeatureList(ph)[i]
        table == TableOf(ph, feat.tname)
        shapes == [s \in Ranks |-> DataShape(ReadFeature(feat, s, world_size))]
        senders == SendersWithFiles(feat)
    IN  torch_cat([k \in 1..Len(senders) |->
            BucketsOf(ReadFeature(feat, senders[k], world_size), senders[k],
                      world_size, table, num_parts, shapes)[q]])

\* C6: when a feature has files, but fewer than world_size, a rank that was
\* assigned none of them still calls the all_gather (with a zero-row
\* descriptor) and the all-to-all (with a zero-row entry for every peer),
\* raises nothing in that shuffle and ends with exactly the rows of the
\* partitions it owns; every rank's blocks are the ones it would cut from
\* what the ranks that were assigned files send.
C6_IdleRanksTakePart ==
    \A ph \in {"node", "edge"} : \A i \in 1..Len(FeatureList(ph)) :
        LET feat == FeatureList(ph)[i]
            table == TableOf(ph, feat.tname)
        IN  (Shuffled(ph, i) /\ Len(feat.files) < world_size) =>
            LET k == ShuffleNo(ph, i) IN
            /\ \A r \in Ranks : NothingAssigned(feat, r) =>
                /\ ~(pc[r] = "raised" /\ phase[r] = ph /\ fi[r] = i)
                /\ (pc[r] = "returned" \/ Passed(r, ph, i)) =>
                       Len(calls[r]) >= 2 * k
                /\ Len(calls[r]) >= 2 * k - 1 =>
                       calls[r][2 * k - 1] = AllGatherCall(NpEmptyArray)
                /\ Len(calls[r]) >= 2 * k =>
                       /\ calls[r][2 * k].op = "alltoall"
                       /\ \A t \in Ranks :
                              NumRows(calls[r][2 * k].payload[t]) = 0
                /\ Passed(r, ph, i) => \A p \in OwnedParts(r) :
                       FeaturesOf(r, ph)[<< feat.tname, feat.fname,
                                            p \div world_size >>].rows
                           = PySlice(Original(feat), table[p + 1][1],
                                     table[p + 1][2])
            /\ \A q \in Ranks : Passed(q, ph, i) =>
                   LET cut == CollectBlocks(OutputWithoutIdle(ph, i, q), q,
                                  world_size, table, feat.tname, feat.fname,
                                  0, [offset |-> 0, features |-> NoDict,
                                      feature_tids |-> NoDict])
                   IN  \A key \in DOMAIN cut.features :
                           FeaturesOf(q, ph)[key] = cut.features[key]

\* The feature x has one file and there are two ranks; both have returned and
\* rank 1, which read nothing, holds a non-empty block of x.
C6_Witness ==
    /\ world_size = 2
    /\ \A r \in Ranks : pc[r] = "returned"
    /\ schema_map.node_data # <<>>
    /\ Len(schema_map.node_data[1].files) = 1
    /\ NumRows(node_features[1][<< "A", "x", 0 >>]) > 0
    /\ NumRows(node_features[0][<< "A", "x", 0 >>]) > 0

\* C7: a rank that is assigned no file of the feature it shuffles enters the
\* shuffle with an empty array, and a rank that is assigned no file of an
\* edge type is not stopped by an error raised for the empty edge list.
C7_NothingAssignedRaisesNothing ==
    \A r \in Ranks :
        /\ (pc[r] \in {"all_gather", "alltoall"}
            /\ NothingAssigned(FeatureList(phase[r])[fi[r]], r))
               => data[r] = NpEmptyArray
        /\ \A i \in 1..Len(schema_map.edges) :
               EdgeFilesOf(schema_map.edges[i], r, world_size, num_parts) = <<>>
                   => ~(pc[r] = "raised" /\ phase[r] = "edges"
                        /\ err[r] = "ValueError")

\* C10: the four columns of a rank that has returned are equally long, and a
\* rank whose concatenated columns are not equally long has raised an
\* AssertionError and returned no columns.
C10_ColumnsAgreeOrFatal ==
    \A r \in Ranks :
        /\ pc[r] = "returned" =>
               /\ Len(edge_datadict[r].src) = Len(edge_datadict[r].dst)
               /\ Len(edge_datadict[r].src) = Len(edge_datadict[r].type_eid)
               /\ Len(edge_datadict[r].src) = Len(edge_datadict[r].etype)
        /\ phase[r] = "edges" =>
               LET res == ReadEdges(r, 1, NoColumns)
               IN  (/\ res.err = ""
                    /\ res.lists.src # <<>>
                    /\ \/ Len(Flatten(res.lists.src))
                              # Len(Flatten(res.lists.type_eid))
                       \/ Len(Flatten(res.lists.src))
                              # Len(Flatten(res.lists.dst))
                       \/ Len(Flatten(res.lists.src))
                              # Len(Flatten(res.lists.etype)))
                   => /\ pc[r] = "raised"
                      /\ err[r] = "AssertionError"
                      /\ edge_datadict[r] = NoColumns

\* One rank has returned columns of at least two entries while another rank,
\* whose files hold one edge more than its id-ranges, was stopped by the
\* assertion.
C10_Witness ==
    \E r, q \in Ranks :
        /\ pc[r] = "returned"
        /\ Len(edge_datadict[r].src) >= 2
        /\ Len(edge_datadict[r].type_eid) = Len(edge_datadict[r].src)
        /\ pc[q] = "raised" /\ phase[q] = "edges" /\ err[q] = "AssertionError"
        /\ ReadEdges(q, 1, NoColumns).err = ""

----------------------------------------------------------------------------
(* The schemas around the edge lists and the entries a schema may lack: the
   node types A and B, up to two edge types, a schema that lacks the key
   node_data or edge_data, chunks that outnumber the partitions.  The chunks
   of A hold 2, 3, 2, ... nodes, those of B one node, those of an edge type
   c, c + 1, c, ... edges. *)

MalformedName == << "A", "B" >>

ReverseName == << "B", "r", "A" >>

\* The first entry of "edges": the type A:r:B in a known or an unknown
\* format, with the files of the schema counts, one row more, or no file;
\* or an entry whose name has two tokens.
FirstEdgeEntries(counts) ==
    LET n == Len(counts)
        layouts == { counts, [counts EXCEPT ![n] = @ + 1], <<>> }
    IN  { [etype_name |-> EdgeTypeName, format |-> f, files |-> l] :
              f \in {"parquet", "numpy"}, l \in layouts }
        \cup { [etype_name |-> EdgeTypeName, format |-> "csv", files |-> l] :
                  l \in { m \in layouts : \A i \in 1..Len(m) : m[i] > 0 } }
        \cup { [etype_name |-> MalformedName, format |-> "parquet",
                files |-> counts] }

\* The entries after the first: none (0), the type B:r:A (1), or a malformed
\* name (2).
MoreEdgeEntries(counts, k) ==
    IF k = 0 THEN <<>>
    ELSE << [etype_name |-> IF k = 1 THEN ReverseName ELSE MalformedName,
             format |-> "parquet", files |-> counts] >>

\* The feature entries of a schema: the keys it lacks, and for node_data and
\* edge_data 0 (None or empty), 1 (a feature without files) or 2 (a feature
\* with one file per chunk).
FeatureCases ==
    { [missing |-> {}, node |-> n, edge |-> e] : n \in 0..2, e \in 0..2 }
    \cup { [missing |-> {"node_data"}, node |-> 0, edge |-> e] : e \in {0, 2} }
    \cup { [missing |-> {"edge_data"}, node |-> n, edge |-> 0] : n \in {0, 2} }

EdgeSchemaOf(node_counts, counts, case, entries) ==
    [missing |-> case.missing,
     node_type |-> << "A", "B" >>,
     num_nodes_per_chunk |->
         << node_counts, [i \in 1..Len(node_counts) |-> 1] >>,
     node_data |->
         IF case.node = 0 THEN <<>>
         ELSE << FeatureOf("A", "x", "numpy",
                     [ndim |-> 2, width |-> 2, dtype |-> "float32"],
                     IF case.node = 1 THEN <<>> ELSE node_counts) >>,
     edge_type |-> [k \in 1..Len(entries) |-> entries[k].etype_name],
     num_edges_per_chunk |-> [k \in 1..Len(entries) |-> counts],
     edge_data |->
         IF case.edge = 0 THEN <<>>
         ELSE << FeatureOf(entries[1].etype_name, "w", "numpy",
                     [ndim |-> 2, width |-> 1, dtype |-> "float32"],
                     IF case.edge = 1 THEN <<>> ELSE counts) >>,
     edges |-> entries]

EdgeInit ==
    \E W \in 1..MaxWorld : \E P \in W..MaxParts :
    \E num_chunks \in {P, P + 1} :
    \E c \in 0..MaxCount :
    LET counts == CountsOf(num_chunks, c) IN
    \E case \in FeatureCases :
    \E first \in FirstEdgeEntries(counts) :
    \E k \in 0..2 :
    LET more == MoreEdgeEntries(counts, k) IN
        /\ k = 2 => first.etype_name # MalformedName
        /\ world_size = W
        /\ num_parts = P
        /\ schema_map = EdgeSchemaOf(CountsOf(num_chunks, 2), counts, case,
                                     << first >> \o more)
        /\ pc = [r \in 0..(W - 1) |-> "start"]
        /\ phase = [r \in 0..(W - 1) |-> "node"]
        /\ fi = [r \in 0..(W - 1) |-> 1]
        /\ data = [r \in 0..(W - 1) |-> None]
        /\ tids = [r \in 0..(W - 1) |-> <<>>]
        /\ calls = [r \in 0..(W - 1) |-> << >>]
        /\ local_data = [r \in 0..(W - 1) |-> None]
        /\ data_output = [r \in 0..(W - 1) |-> None]
        /\ node_features = [r \in 0..(W - 1) |-> NoDict]
        /\ node_feature_tids = [r \in 0..(W - 1) |-> NoDict]
        /\ edge_features = [r \in 0..(W - 1) |-> NoDict]
        /\ edge_feature_tids = [r \in 0..(W - 1) |-> NoDict]
        /\ edge_datadict = [r \in 0..(W - 1) |-> NoColumns]
        /\ err = [r \in 0..(W - 1) |-> ""]
        /\ sparse_test = NoTest

EdgeSpec == EdgeInit /\ [][Next]_vars

----------------------------------------------------------------------------
\* Vocabulary of the properties of the edge lists.

\* Entry i of "edges" has a well-formed name, a known format and files that
\* hold the rows of the schema's chunks.
Conforming(i) ==
    LET e == schema_map.edges[i]
    IN  /\ TokensAccepted(e.etype_name)
        /\ e.format \in {"csv", "parquet"}
        /\ e.files = schema_map.num_edges_per_chunk[i]

\* The rows rank r reads of entry i, in reading order.
RowsRead(i, r) ==
    LET e == schema_map.edges[i]
        idxs == EdgeFilesOf(e, r, world_size, num_parts)
    IN  Flatten(Flatten([k \in 1..Len(idxs) |-> EdgeFileArrays(e, idxs[k])]))

\* The sum of the sizes of the id-ranges of the partitions r owns.
OwnedSize(table, r) ==
    SumSeq([p \in 1..Len(table) |->
               IF map_partid_rank(p - 1, world_size) = r
                   THEN table[p][2] - table[p][1] ELSE 0])

\* C11: when the files of an edge type hold the rows of the schema's chunks,
\* the rows a rank reads of it are as many as the id-ranges of the partitions
\* it owns are long, and the k-th row read is the row at the position, over
\* the files of the type, that the k-th id of the concatenated ranges names;
\* the type_eid column a rank returns pairs its rows in this way.
C11_RowsPairedWithTypeEids ==
    \A r \in Ranks :
        /\ \A i \in 1..Len(schema_map.edges) : Conforming(i) =>
               LET rows == RowsRead(i, r)
                   table == edge_tids[schema_map.edges[i].etype_name]
                   ids == TypeEids(table, r, world_size)
               IN  /\ Len(rows) = OwnedSize(table, r)
                   /\ Len(ids) = Len(rows)
                   /\ \A k \in 1..Len(rows) : rows[k].src = ids[k]
        /\ (pc[r] = "returned"
            /\ \A i \in 1..Len(schema_map.edges) : Conforming(i)) =>
               LET cols == edge_datadict[r]
                   names == schema_map.edge_type
               IN  /\ Len(cols.type_eid) = Len(cols.src)
                   /\ \A k \in 1..Len(cols.src) :
                          cols.type_eid[k] = cols.src[k]
                              - ntype_gnid_offset[names[cols.etype[k] + 1][1]]

\* A rank of two has returned edges of two partitions that are not adjacent:
\* its type-relative ids have a gap.
C11_Witness ==
    \E r \in Ranks :
        /\ pc[r] = "returned"
        /\ world_size = 2
        /\ \A i \in 1..Len(schema_map.edges) : Conforming(i)
        /\ \E k \in 1..(Len(edge_datadict[r].type_eid) - 1) :
               /\ edge_datadict[r].etype[k] = edge_datadict[r].etype[k + 1]
               /\ edge_datadict[r].type_eid[k + 1]
                      > edge_datadict[r].type_eid[k] + 1

\* The rows of the files of feature i of phase ph are as many as its type has
\* ids.
ExactlyCounted(ph, i) ==
    LET feat == FeatureList(ph)[i]
        table == TableOf(ph, feat.tname)
    IN  SumSeq([r \in 1..world_size |->
                   NumRows(ReadFeature(feat, r - 1, world_size))])
            = table[Len(table)][2]

\* A block rank r has stored in phase ph is not as long as its id-range.
HasWrongBlock(r, ph) ==
    \E key \in DOMAIN FeaturesOf(r, ph) :
        NumRows(FeaturesOf(r, ph)[key]) #
            FeatureTidsOf(r, ph)[key][1][2] - FeatureTidsOf(r, ph)[key][1][1]

\* C12: when the rows read over all ranks of a feature are as many as its
\* type has ids, every block stored for an owned partition has end - start
\* rows, and when this is so for every feature no block-size assertion fails;
\* a rank that has stored a block of another size does not go past the
\* assertion: it never returns, and at the end of the loop it has raised an
\* AssertionError.
C12_BlockSizes ==
    \A r \in Ranks :
        /\ \A ph \in {"node", "edge"} : \A i \in 1..Len(FeatureList(ph)) :
               (Shuffled(ph, i) /\ Passed(r, ph, i) /\ ExactlyCounted(ph, i)) =>
                   LET feat == FeatureList(ph)[i]
                       table == TableOf(ph, feat.tname)
                   IN  \A p \in OwnedParts(r) :
                           NumRows(FeaturesOf(r, ph)[<< feat.tname, feat.fname,
                                                      p \div world_size >>])
                               = table[p + 1][2] - table[p + 1][1]
        /\ (/\ IdRangesAccepted(schema_map.num_nodes_per_chunk, num_parts)
            /\ \A ph \in {"node", "edge"} : \A i \in 1..Len(FeatureList(ph)) :
                   Shuffled(ph, i) => ExactlyCounted(ph, i))
               => ~(pc[r] = "raised" /\ phase[r] \in {"node", "edge"}
                    /\ err[r] = "AssertionError")
        /\ \A ph \in {"node", "edge"} : HasWrongBlock(r, ph) =>
               /\ pc[r] # "returned"
               /\ phase[r] = ph
               /\ pc[r] \notin {"all_gather", "alltoall"} =>
                      pc[r] = "raised" /\ err[r] = "AssertionError"

\* A rank holds a block of the feature y that is as long as its id-range and
\* a block of the feature x that is shorter, and was stopped by the
\* assertion.
C12_Witness ==
    \E r \in Ranks :
        /\ pc[r] = "raised" /\ err[r] = "AssertionError" /\ phase[r] = "node"
        /\ HasWrongBlock(r, "node")
        /\ << "A", "y", 0 >> \in DOMAIN node_features[r]
        /\ NumRows(node_features[r][<< "A", "y", 0 >>]) > 0
        /\ NumRows(node_features[r][<< "A", "y", 0 >>]) =
               node_feature_tids[r][<< "A", "y", 0 >>][1][2]
                   - node_feature_tids[r][<< "A", "y", 0 >>][1][1]

\* The rows rank r reads of all the entries of "edges", in reading order,
\* each with the tokens of its edge type.
RECURSIVE AllRowsRead(_, _)
AllRowsRead(i, r) ==
    IF i > Len(schema_map.edges) THEN <<>>
    ELSE LET rows == RowsRead(i, r)
         IN  [k \in 1..Len(rows) |->
                 [src |-> rows[k].src, dst |-> rows[k].dst,
                  tokens |-> schema_map.edges[i].etype_name]]
             \o AllRowsRead(i + 1, r)

\* C13: in the columns a rank returns, the global source id of every edge row
\* of type src_type:relation:dst_type is its raw source id plus the global
\* offset of src_type, and its global destination id is its raw destination
\* id plus the global offset of dst_type.
C13_GlobalNodeIds ==
    \A r \in Ranks : pc[r] = "returned" =>
        LET raw == AllRowsRead(1, r)
            cols == edge_datadict[r]
        IN  /\ Len(cols.src) = Len(raw)
            /\ Len(cols.dst) = Len(raw)
            /\ \A k \in 1..Len(raw) :
                   /\ cols.src[k] =
                          raw[k].src + ntype_gnid_offset[raw[k].tokens[1]]
                   /\ cols.dst[k] =
                          raw[k].dst + ntype_gnid_offset[raw[k].tokens[3]]

\* With the offsets A: 0 and B: 5, a rank has returned the raw edge (2, 1) of
\* A:r:B as (2, 6), and an edge of B:r:A whose source is moved by 5.
C13_Witness ==
    \E r \in Ranks :
        /\ pc[r] = "returned"
        /\ ntype_gnid_offset["A"] = 0
        /\ ntype_gnid_offset["B"] = 5
        /\ \E k \in 1..Len(edge_datadict[r].src) :
               /\ AllRowsRead(1, r)[k] =
                      [src |-> 2, dst |-> 1, tokens |-> EdgeTypeName]
               /\ edge_datadict[r].src[k] = 2
               /\ edge_datadict[r].dst[k] = 6
        /\ \E k \in 1..Len(edge_datadict[r].src) :
               /\ AllRowsRead(1, r)[k].tokens = ReverseName
               /\ edge_datadict[r].src[k] = AllRowsRead(1, r)[k].src + 5

\* The schema has an edge type whose name has not three tokens, or whose
\* format is neither csv nor parquet.
BadEdgeEntry ==
    \E i \in 1..Len(schema_map.edges) :
        \/ Len(schema_map.edges[i].etype_name) # 3
        \/ schema_map.edges[i].format \notin {"csv", "parquet"}

\* No rank can take a step: none is about to start and none waits in a
\* collective that all ranks have called.
Quiescent ==
    \A r \in Ranks :
        /\ pc[r] # "start"
        /\ pc[r] \in {"all_gather", "alltoall"} => ~CollectiveReady(r, pc[r])

\* C14: when an edge type name of the schema has not exactly three tokens, or
\* the format of an edge type is neither csv nor parquet, no rank returns or
\* holds edge columns, every rank that comes to the edge lists is stopped by
\* an error, and when nothing can move any more every rank has been stopped
\* by an error.
C14_BadEdgeEntryIsFatal ==
    BadEdgeEntry =>
        /\ \A r \in Ranks :
               /\ pc[r] # "returned"
               /\ edge_datadict[r] = NoColumns
               /\ phase[r] = "edges" => pc[r] = "raised" /\ err[r] # ""
        /\ Quiescent => \A r \in Ranks : pc[r] = "raised" /\ err[r] # ""

\* Two ranks have shuffled a feature and were both stopped at the edge lists:
\* the second edge type of the schema has a name of two tokens.
C14_Witness ==
    /\ world_size = 2
    /\ Len(schema_map.edges) = 2
    /\ Conforming(1)
    /\ schema_map.edges[2].etype_name = MalformedName
    /\ \A r \in Ranks :
           /\ pc[r] = "raised" /\ phase[r] = "edges"
           /\ err[r] = "AssertionError"
           /\ Len(calls[r]) >= 2

\* The schema has no feature data for the types of phase ph: the entry is
\* absent, None or empty, or none of its features has a file.
NoFeatureData(ph) ==
    \/ (IF ph = "node" THEN "node_data" ELSE "edge_data") \in schema_map.missing
    \/ \A i \in 1..Len(FeatureList(ph)) : ~Shuffled(ph, i)

\* C15: when the schema has no feature data for the node types (or for the
\* edge types), no rank makes a collective call for them or is stopped by an
\* error for them, its dictionaries of that kind stay empty, and a rank that
\* can go on does go on to the rest of the schema.
C15_NoFeatureDataIsNoError ==
    \A ph \in {"node", "edge"} : NoFeatureData(ph) =>
        \A r \in Ranks :
            /\ FeaturesOf(r, ph) = NoDict
            /\ FeatureTidsOf(r, ph) = NoDict
            /\ pc[r] \in {"all_gather", "alltoall"} => phase[r] # ph
            /\ ~(pc[r] = "raised" /\ err[r] = "KeyError")

----------------------------------------------------------------------------
\* Further properties of one shuffle.

\* What the exchange may hand back at a rank's own index: nothing, a zero-row
\* array, or the rows the rank set aside.
SelfEntries(r) ==
    { None, ZeroRows(2, "float32"), ZeroRows(1, "int64"), local_data[r] }

\* C16: the entry a rank passes to the all-to-all for itself has no rows;
\* whatever the exchange returns at the rank's own index, the output is
\* assembled from the slice the rank set aside; and every row the rank holds
\* for its own partitions is in its output exactly once.
C16_SelfSliceStaysLocal ==
    \A r \in Ranks :
        /\ Bucketed(r) => NumRows(calls[r][2].payload[r]) = 0
        /\ (pc[r] = "alltoall" /\ CollectiveReady(r, "alltoall")) =>
               \A retain_nones \in BOOLEAN : \A e \in SelfEntries(r) :
                   Reassemble([alltoallv_cpu(r, retain_nones) EXCEPT ![r] = e],
                              r, local_data[r], world_size)
                     = Reassemble(alltoallv_cpu(r, retain_nones), r,
                                  local_data[r], world_size)
        /\ pc[r] = "done" =>
               \A g \in Positions(data[r]) : OwnedPosition(tids[r], g, r) =>
                   /\ g \in Positions(local_data[r])
                   /\ Cardinality({ k \in 1..NumRows(data_output[r]) :
                                      data_output[r].rows[k].pos = g }) = 1

\* A rank of two has finished: it set rows aside for itself, passed a
\* zero-row entry for itself, and its output holds its own rows and rows of
\* the other rank.
C16_Witness ==
    \E r \in Ranks :
        /\ world_size = 2
        /\ pc[r] = "done"
        /\ NumRows(local_data[r]) > 0
        /\ NumRows(calls[r][2].payload[r]) = 0
        /\ NumRows(data_output[r]) > NumRows(local_data[r])

\* C17: at the all-to-all call a rank supplies an entry for each of the
\* world_size ranks and none is missing; an entry without rows has rank 0's
\* element type and the shape of the real slices without their rows: one
\* dimension for 1-D data, two dimensions and the width D for 2-D data of
\* width D.
C17_PlaceholdersLikeSlices ==
    \A r \in Ranks : Bucketed(r) =>
        LET payload == calls[r][2].payload
        IN  /\ DOMAIN payload = Ranks
            /\ \A t \in Ranks :
                   /\ payload[t] # None
                   /\ NumRows(payload[t]) = 0 =>
                          /\ payload[t].dtype = data[0].dtype
                          /\ \A s \in Ranks : NumRows(data[s]) > 0 =>
                                 /\ payload[t].ndim = data[s].ndim
                                 /\ payload[t].width = data[s].width

----------------------------------------------------------------------------
(* The sparse matrices of dgl.sparse, as test_elementwise_op.py uses them.
   A matrix is a record: its kind ("sparse" for COO, CSR and CSC, "diag"),
   its shape << rows, columns >> and the sequence nnz of its stored entries
   [row, col, val].  A value is a sequence of numbers: of length 1 for
   val_shape (), of length 2 for val_shape (2,). *)

ZeroVal(n) == [k \in 1..n |-> 0]

ValAdd(u, v) == [k \in 1..Len(u) |-> u[k] + v[k]]

ValNeg(u) == [k \in 1..Len(u) |-> 0 - u[k]]

RECURSIVE ValSum(_, _)
ValSum(vs, n) ==
    IF vs = <<>> THEN ZeroVal(n) ELSE ValAdd(Head(vs), ValSum(Tail(vs), n))

RECURSIVE MaxOf(_)
MaxOf(xs) == IF Len(xs) = 1 THEN xs[1] ELSE Max(Head(xs), MaxOf(Tail(xs)))

Matrix(kind, shape, nnz) == [kind |-> kind, shape |-> shape, nnz |-> nnz]

TypeError == [kind |-> "TypeError", shape |-> <<>>, nnz |-> <<>>]

Scalar(x) == [kind |-> "scalar", shape |-> <<>>, nnz |-> << x >>]

IsMatrix(M) == M.kind \in {"sparse", "diag"}

\* dglsp.from_coo(row, col, val, shape); without a shape the matrix is as
\* large as its largest indices ask for.
from_coo(row, col, val, shape) ==
    Matrix("sparse",
           IF shape = <<>> THEN << MaxOf(row) + 1, MaxOf(col) + 1 >>
           ELSE shape,
           [k \in 1..Len(row) |->
               [row |-> row[k], col |-> col[k], val |-> val[k]]])

\* The row (column) of the k-th stored entry, from 0, of compressed indices.
Uncompress(indptr, k) ==
    CHOOSE i \in 0..(Len(indptr) - 2) :
        indptr[i + 1] <= k /\ k < indptr[i + 2]

\* dglsp.from_csr(indptr, indices, val, shape).
from_csr(indptr, indices, val, shape) ==
    Matrix("sparse",
           IF shape = <<>> THEN << Len(indptr) - 1, MaxOf(indices) + 1 >>
           ELSE shape,
           [k \in 1..Len(indices) |->
               [row |-> Uncompress(indptr, k - 1), col |-> indices[k],
                val |-> val[k]]])

\* dglsp.from_csc(indptr, indices, val, shape).
from_csc(indptr, indices, val, shape) ==
    Matrix("sparse",
           IF shape = <<>> THEN << MaxOf(indices) + 1, Len(indptr) - 1 >>
           ELSE shape,
           [k \in 1..Len(indices) |->
               [row |-> indices[k], col |-> Uncompress(indptr, k - 1),
                val |-> val[k]]])

\* dglsp.diag(val, shape).
diag(val, shape) ==
    Matrix("diag", shape,
           [k \in 1..Len(val) |-> [row |-> k - 1, col |-> k - 1,
                                   val |-> val[k]]])

\* The length of the values of a matrix.
ValLen(M) == IF M.nnz = <<>> THEN 1 ELSE Len(M.nnz[1].val)

\* M.to_dense(): every cell holds the sum of the entries stored for it.
to_dense(M) ==
    [cell \in (0..(M.shape[1] - 1)) \X (0..(M.shape[2] - 1)) |->
        LET here == SelectSeq(M.nnz,
                        LAMBDA e : e.row = cell[1] /\ e.col = cell[2])
        IN  ValSum([k \in 1..Len(here) |-> here[k].val], ValLen(M))]

\* coalesce(): the cells a matrix stores entries for, in row-major order,
\* each with the sum of the entries stored for it.
RECURSIVE Entries(_, _, _)
Entries(M, dense, at) ==
    IF at >= M.shape[1] * M.shape[2] THEN <<>>
    ELSE LET cell == << at \div M.shape[2], at % M.shape[2] >>
         IN  (IF \E k \in 1..Len(M.nnz) :
                     M.nnz[k].row = cell[1] /\ M.nnz[k].col = cell[2]
                  THEN << [row |-> cell[1], col |-> cell[2],
                           val |-> dense[cell]] >>
                  ELSE <<>>)
             \o Entries(M, dense, at + 1)

Negated(M) ==
    [M EXCEPT !.nnz = [k \in 1..Len(M.nnz) |->
                          [M.nnz[k] EXCEPT !.val = ValNeg(@)]]]

\* An add that lets an operand that is no matrix through, unchanged.
sp_add_Lenient(A, B) ==
    IF ~IsMatrix(B) THEN A
    ELSE IF ~IsMatrix(A) THEN B
    ELSE IF A.shape # B.shape THEN TypeError
    ELSE LET both == Matrix("sparse", A.shape, A.nnz \o B.nnz)
         IN  Matrix(IF A.kind = "diag" /\ B.kind = "diag" THEN "diag"
                    ELSE "sparse",
                    A.shape,
                    Entries(both, to_dense(both), 0))

\* dglsp.add(A, B): the matrix that stores, for every cell A or B stores, the
\* sum of their entries; a diagonal matrix when both are diagonal.  An
\* operand that is not a matrix, or a matrix of another shape, is refused.
sp_add(A, B) ==
    IF ~(IsMatrix(A) /\ IsMatrix(B)) THEN TypeError
    ELSE IF A.shape # B.shape THEN TypeError
    ELSE LET both == Matrix("sparse", A.shape, A.nnz \o B.nnz)
         IN  Matrix(IF A.kind = "diag" /\ B.kind = "diag" THEN "diag"
                    ELSE "sparse",
                    A.shape,
                    Entries(both, to_dense(both), 0))

\* dglsp.sub(A, B).
sp_sub(A, B) ==
    IF ~(IsMatrix(A) /\ IsMatrix(B)) THEN TypeError
    ELSE sp_add(A, Negated(B))

\* mul, truediv and pow that refuse no pair of operands.
sp_other_Lenient(opname, A, B) == Matrix("unmodelled", <<>>, <<>>)

\* mul, truediv and pow of the operands the tests use: a diagonal and a
\* general sparse matrix are refused.
sp_other(opname, A, B) ==
    IF IsMatrix(A) /\ IsMatrix(B) /\ A.kind # B.kind THEN TypeError
    ELSE Matrix("unmodelled", <<>>, <<>>)

\* getattr(dglsp, opname)(A, B) and getattr(operator, opname)(A, B).
sp_func(opname, A, B) ==
    CASE opname = "add" -> sp_add(A, B)
      [] opname = "sub" -> sp_sub(A, B)
      [] OTHER -> sp_other(opname, A, B)

----------------------------------------------------------------------------
(* test_elementwise_op.py.  A test is started with its parameters and the
   values torch.randn drew; it computes its results, checks them against the
   dense computation, and checks that the refused operations raise. *)

\* getattr(operator, opname)(X, Y): Python hands the operation to the sparse
\* matrix among the operands.
operator_op(opname, X, Y) == sp_func(opname, X, Y)

\* op applied to dense arrays (lines 33, 62, 91, 115, 142, 166).
dense_op_AlwaysAdd(opname, X, Y) == [cell \in DOMAIN X |-> ValAdd(X[cell], Y[cell])]

dense_op(opname, X, Y) ==
    [cell \in DOMAIN X |->
        IF opname = "add" THEN ValAdd(X[cell], Y[cell])
        ELSE ValAdd(X[cell], ValNeg(Y[cell]))]

dense_neg(X) == [cell \in DOMAIN X |-> ValNeg(X[cell])]

\* torch.allclose of two arrays of integers.
allclose(X, Y) == X = Y

\* The values torch.randn(shape + val_shape) may draw: n values of the shape
\* val_shape, () or (2,).
RandValues(n, val_shape) ==
    [1..n -> IF val_shape = <<>> THEN { << v >> : v \in 1..MaxVal }
             ELSE { << v, MaxVal + 1 - v >> : v \in 1..MaxVal }]

AddSubTests ==
    {"test_addsub_coo", "test_addsub_csr", "test_addsub_csc",
     "test_addsub_diag"}

SparseDiagTests == {"test_add_sparse_diag", "test_sub_sparse_diag"}

\* The first matrix a test builds (lines 21-24, 50-53, 79-82, 107-109,
\* 129-132, 153-156, 177-180).
FirstMatrix(name, val) ==
    CASE name = "test_addsub_csr" ->
             from_csr(<< 0, 1, 2, 3 >>, << 3, 0, 2 >>, val, <<>>)
      [] name = "test_addsub_csc" ->
             from_csc(<< 0, 1, 1, 2, 3 >>, << 1, 2, 0 >>, val, <<>>)
      [] name = "test_addsub_diag" -> diag(val, << 3, 4 >>)
      [] OTHER -> from_coo(<< 1, 0, 2 >>, << 0, 3, 2 >>, val, <<>>)

\* The second matrix a test builds (lines 26-29, 55-58, 84-87, 110,
\* 134-136, 158-160, 182-183).
SecondMatrix(name, val, shape) ==
    CASE name = "test_addsub_coo" -> from_coo(<< 1, 0 >>, << 0, 2 >>, val, shape)
      [] name = "test_addsub_csr" ->
             from_csr(<< 0, 1, 2, 2 >>, << 2, 0 >>, val, shape)
      [] name = "test_addsub_csc" ->
             from_csc(<< 0, 1, 1, 2, 2 >>, << 1, 0 >>, val, shape)
      [] OTHER -> diag(val, << 3, 4 >>)

\* How many values the second matrix of a test has.
SecondCount(name) ==
    IF name \in {"test_addsub_coo", "test_addsub_csr", "test_addsub_csc"}
        THEN 2 ELSE 3

\* The parametrizations of the tests: the name, the operation, val_shape.
TestCases ==
    { [name |-> n, opname |-> o, val_shape |-> v] :
          n \in AddSubTests, o \in {"add", "sub"}, v \in { <<>>, << 2 >> } }
    \cup { [name |-> "test_add_sparse_diag", opname |-> "add", val_shape |-> v] :
              v \in { <<>>, << 2 >> } }
    \cup { [name |-> "test_sub_sparse_diag", opname |-> "sub", val_shape |-> v] :
              v \in { <<>>, << 2 >> } }
    \cup { [name |-> "test_error_op_sparse_diag", opname |-> o,
            val_shape |-> <<>>] : o \in {"mul", "truediv", "pow"} }

SparseInit ==
    \E case \in TestCases :
    \E val1 \in RandValues(3, case.val_shape) :
    \E val2 \in RandValues(SecondCount(case.name), case.val_shape) :
        LET A == FirstMatrix(case.name, val1)
        IN  /\ sparse_test =
                   [name |-> case.name, opname |-> case.opname,
                    val_shape |-> case.val_shape, pc |-> "built",
                    A |-> A, B |-> SecondMatrix(case.name, val2, A.shape),
                    results |-> <<>>, dense |-> <<>>, raised |-> <<>>]
            /\ world_size = 1
            /\ num_parts = 1
            /\ schema_map = << >>
            /\ pc = [r \in {0} |-> "idle"]
            /\ phase = [r \in {0} |-> "none"]
            /\ fi = [r \in {0} |-> 0]
            /\ data = [r \in {0} |-> None]
            /\ tids = [r \in {0} |-> <<>>]
            /\ calls = [r \in {0} |-> << >>]
            /\ local_data = [r \in {0} |-> None]
            /\ data_output = [r \in {0} |-> None]
            /\ node_features = [r \in {0} |-> NoDict]
            /\ node_feature_tids = [r \in {0} |-> NoDict]
            /\ edge_features = [r \in {0} |-> NoDict]
            /\ edge_feature_tids = [r \in {0} |-> NoDict]
            /\ edge_datadict = [r \in {0} |-> NoColumns]
            /\ err = [r \in {0} |-> ""]

partitionVars ==
    << world_size, num_parts, schema_map, pc, phase, fi, data, tids, calls,
       local_data, data_output, node_features, node_feature_tids,
       edge_features, edge_feature_tids, edge_datadict, err >>

\* The sparse results a test computes, in the order of its assertions
\* (lines 31-32, 138-141, 162-165).
ResultsOf(t) ==
    IF t.name \in AddSubTests
        THEN << operator_op(t.opname, t.A, t.B), sp_func(t.opname, t.A, t.B) >>
        ELSE << operator_op(t.opname, t.A, t.B),
                operator_op(t.opname, t.B, t.A),
                sp_func(t.opname, t.A, t.B), sp_func(t.opname, t.B, t.A) >>

\* Lines 31-33, 138-142, 162-166: the results are computed and made dense.
\* A result that is no matrix cannot be made dense and ends the test.
TestCompute ==
    /\ sparse_test.pc = "built"
    /\ sparse_test.name \in AddSubTests \cup SparseDiagTests
    /\ LET res == ResultsOf(sparse_test)
       IN  IF \A k \in 1..Len(res) : IsMatrix(res[k])
           THEN sparse_test' =
                    [sparse_test EXCEPT
                        !.pc = "computed",
                        !.results = [k \in 1..Len(res) |-> to_dense(res[k])],
                        !.dense = dense_op(sparse_test.opname,
                                           to_dense(sparse_test.A),
                                           to_dense(sparse_test.B))]
           ELSE sparse_test' = [sparse_test EXCEPT !.pc = "failed"]
    /\ UNCHANGED partitionVars

\* Lines 35-36, 144-147, 168-171: the assertions on the dense results; the
\* results of test_sub_sparse_diag with the diagonal matrix first are
\* compared after negation.
AssertionsHold(t) ==
    \A k \in 1..Len(t.results) :
        IF t.name = "test_sub_sparse_diag" /\ k \in {2, 4}
            THEN allclose(t.dense, dense_neg(t.results[k]))
            ELSE allclose(t.dense, t.results[k])

TestAssert ==
    /\ sparse_test.pc = "computed"
    /\ sparse_test' =
           [sparse_test EXCEPT !.pc =
               IF ~AssertionsHold(sparse_test) THEN "failed"
               ELSE IF sparse_test.name \in AddSubTests THEN "asserted"
               ELSE "passed"]
    /\ UNCHANGED partitionVars

\* The operands of the two operations a test expects to raise (lines 38-41,
\* 185-188): the matrix and the number 2, or the two matrices, in both orders.
RefusedOperands(t) ==
    IF t.name \in AddSubTests
        THEN << << t.A, Scalar(2) >>, << Scalar(2), t.A >> >>
        ELSE << << t.A, t.B >>, << t.B, t.A >> >>

\* Lines 38-41, 67-70, 96-99, 120-123, 185-188: the two blocks of
\* pytest.raises(TypeError); a block in which nothing is raised ends the test.
TestRaises ==
    /\ \/ sparse_test.pc = "asserted"
       \/ /\ sparse_test.pc = "built"
          /\ sparse_test.name = "test_error_op_sparse_diag"
    /\ LET ops == RefusedOperands(sparse_test)
           r1 == operator_op(sparse_test.opname, ops[1][1], ops[1][2])
           r2 == operator_op(sparse_test.opname, ops[2][1], ops[2][2])
       IN  sparse_test' =
               [sparse_test EXCEPT
                   !.raised = IF r1.kind # "TypeError" THEN << r1.kind >>
                              ELSE << r1.kind, r2.kind >>,
                   !.pc = IF r1.kind = "TypeError" /\ r2.kind = "TypeError"
                              THEN "passed"
                          ELSE "failed"]
    /\ UNCHANGED partitionVars

SparseNext ==
    \/ TestCompute
    \/ TestAssert
    \/ TestRaises

SparseSpec == SparseInit /\ [][SparseNext]_vars

----------------------------------------------------------------------------
(* The claims about the elementwise operations of sparse matrices. *)

\* What the dense computation of a test gives.
DenseExpected(t) == dense_op(t.opname, to_dense(t.A), to_dense(t.B))

\* C18: for two sparse matrices A and B of the same shape, in every pairing
\* the tests build (COO, CSR, CSC, diagonal, and diagonal with general sparse
\* in both operand orders), add(A, B) and A + B densify to
\* dense(A) + dense(B), and sub(A, B) and A - B densify to
\* dense(A) - dense(B); with the operands exchanged the sum is the same and
\* the difference D - A is the negation of A - D.
C18_AddSubMatchDense ==
    (/\ sparse_test.name \in AddSubTests \cup SparseDiagTests
     /\ sparse_test.pc # "built")
        => /\ sparse_test.pc # "failed"
           /\ sparse_test.dense = DenseExpected(sparse_test)
           /\ Len(sparse_test.results) =
                  (IF sparse_test.name \in AddSubTests THEN 2 ELSE 4)
           /\ \A k \in 1..Len(sparse_test.results) :
                  sparse_test.results[k] =
                      IF sparse_test.name \in SparseDiagTests /\ k \in {2, 4}
                          THEN dense_op(sparse_test.opname,
                                        to_dense(sparse_test.B),
                                        to_dense(sparse_test.A))
                          ELSE DenseExpected(sparse_test)
           /\ sparse_test.name = "test_sub_sparse_diag"
                  => /\ sparse_test.results[2] =
                            dense_neg(sparse_test.results[1])
                     /\ sparse_test.results[4] =
                            dense_neg(sparse_test.results[3])

\* A difference of a general sparse and a diagonal matrix, of values of
\* shape (2,), was computed in both orders and the test passed.
C18_Witness ==
    /\ sparse_test.name = "test_sub_sparse_diag"
    /\ sparse_test.val_shape = << 2 >>
    /\ sparse_test.pc = "passed"
    /\ sparse_test.results[1] # sparse_test.results[2]

\* C19: adding or subtracting a scalar and a sparse matrix (COO, CSR, CSC or
\* diagonal), in either operand order, fails with a type error and yields no
\* result.
C19_ScalarAddSubRefused ==
    sparse_test.name \in AddSubTests
        => /\ operator_op(sparse_test.opname, sparse_test.A, Scalar(2)).kind
                  = "TypeError"
           /\ operator_op(sparse_test.opname, Scalar(2), sparse_test.A).kind
                  = "TypeError"
           /\ sparse_test.pc = "asserted" => sparse_test.raised = <<>>
           /\ (sparse_test.pc = "passed" \/ sparse_test.raised # <<>>)
                  => /\ sparse_test.raised = << "TypeError", "TypeError" >>
                     /\ sparse_test.pc = "passed"
                     /\ Len(sparse_test.results) = 2

\* Both blocks of a test of the addition of diagonal matrices raised.
C19_Witness ==
    /\ sparse_test.name = "test_addsub_diag"
    /\ sparse_test.opname = "add"
    /\ sparse_test.pc = "passed"
    /\ sparse_test.raised = << "TypeError", "TypeError" >>

\* C20: multiplication, true division and power between a diagonal matrix and
\* a general sparse matrix, in either operand order, fail with a type error
\* and yield no result.
C20_DiagSparseOpsRefused ==
    sparse_test.name = "test_error_op_sparse_diag"
        => /\ sparse_test.opname \in {"mul", "truediv", "pow"}
           /\ sparse_test.A.kind = "sparse" /\ sparse_test.B.kind = "diag"
           /\ sparse_test.pc # "built"
                  => /\ sparse_test.raised = << "TypeError", "TypeError" >>
                     /\ sparse_test.pc = "passed"
                     /\ sparse_test.results = <<>>

\* Both blocks of the test of the power raised.
C20_Witness ==
    /\ sparse_test.name = "test_error_op_sparse_diag"
    /\ sparse_test.opname = "pow"
    /\ sparse_test.pc = "passed"
    /\ Len(sparse_test.raised) = 2

----------------------------------------------------------------------------
(* The claims about the offset table and the order of the output of one
   shuffle. *)

\* What all_gather handed to every rank in a shuffle on its own: the
\* descriptors of the first call of every rank.
GatheredShapes == [q \in Ranks |-> calls[q][1].payload]

\* The number of rows of the arrays of the ranks before rank i.
RowsBefore(i) == Len(Flatten([j \in 1..i |-> data[j - 1].rows]))

\* C21: after the all_gather every rank holds the same offset table: the
\* span of rank i starts at the sum of the row counts of the ranks before it
\* and ends that many plus its own row count, so the spans are disjoint,
\* ordered by rank, and tile [0, total rows); a rank without rows has an
\* empty span.
C21_OffsetTable ==
    \A r \in Ranks :
        LET returned == pc[r] = "all_gather" /\ CollectiveReady(r, "all_gather")
            data_lines == DataLines(GatheredShapes, world_size)
        IN  (returned \/ Bucketed(r)) =>
                /\ returned => Gathered(r) = GatheredShapes
                /\ Len(data_lines) = world_size + 1
                /\ data_lines[1] = 0
                /\ data_lines[world_size + 1] = TotalRows
                /\ \A i \in Ranks :
                      /\ data_lines[i + 1] = RowsBefore(i)
                      /\ data_lines[i + 2] = RowsBefore(i) + NumRows(data[i])
                      /\ NumRows(data[i]) = 0 =>
                             data_lines[i + 1] = data_lines[i + 2]
                /\ \A i \in Ranks : \A j \in Ranks :
                      i < j => data_lines[i + 2] <= data_lines[j + 1]

\* A shuffle of two ranks in which the first has rows, and the all_gather
\* has returned to a rank that has not bucketed its rows yet.
C21_Witness ==
    /\ world_size = 2
    /\ NumRows(data[0]) >= 2
    /\ NumRows(data[1]) >= 1
    /\ \E r \in Ranks :
          /\ pc[r] = "all_gather"
          /\ CollectiveReady(r, "all_gather")
          /\ DataLines(Gathered(r), world_size) = << 0, 2, 3 >>

\* The positions of the rows of a tensor, in the order of the rows.
PositionList(t) == [i \in 1..NumRows(t) |-> t.rows[i].pos]

\* The partition whose range holds position g (num_parts when none does).
PartitionOf(table, g) ==
    IF \E p \in 1..Len(table) : table[p][1] <= g /\ g < table[p][2]
        THEN (CHOOSE p \in 1..Len(table) :
                  table[p][1] <= g /\ g < table[p][2]) - 1
        ELSE Len(table)

\* The blocks lines 303-315 cut from the output of rank r in a shuffle on
\* its own.
CutOf(r) ==
    CollectBlocks(data_output[r], r, world_size, tids[r], "t", "f", 0,
                  [offset |-> 0, features |-> NoDict, feature_tids |-> NoDict])

\* C22: when the ranks hold consecutive ascending blocks of positions in rank
\* order, the output of every rank is in strictly ascending order of
\* position, hence grouped by owned partition in ascending partition id,
\* although it is assembled by source rank; when the table tiles the rows,
\* the cut of lines 303-315 with one running offset gives every owned
\* partition exactly the rows of its range, in order.
C22_OutputAscending ==
    \A r \in Ranks : (pc[r] = "done" /\ BlocksInRankOrder) =>
        LET out == PositionList(data_output[r])
        IN  /\ \A k \in 1..(Len(out) - 1) :
                  /\ out[k] < out[k + 1]
                  /\ PartitionOf(tids[r], out[k])
                         <= PartitionOf(tids[r], out[k + 1])
            /\ Tiles(tids[r], TotalRows) =>
                  \A p \in 0..(num_parts - 1) :
                      map_partid_rank(p, world_size) = r =>
                          LET key == << "t", "f", p \div world_size >>
                          IN  /\ key \in DOMAIN CutOf(r).features
                              /\ PositionList(CutOf(r).features[key]) =
                                     [i \in 1..(tids[r][p + 1][2] - tids[r][p + 1][1])
                                         |-> tids[r][p + 1][1] + i - 1]

\* A rank that owns two partitions, whose output joins rows of its own with
\* rows received from a rank before it and is cut into two blocks with rows.
C22_Witness ==
    /\ AllDone
    /\ world_size = 2
    /\ num_parts = 3
    /\ BlocksInRankOrder
    /\ Tiles(tids[0], TotalRows)
    /\ \E r \in Ranks :
          /\ Positions(data_output[r]) \cap Positions(data[r]) # {}
          /\ Positions(data_output[r]) \ Positions(data[r]) # {}
          /\ \A key \in DOMAIN CutOf(r).features :
                 NumRows(CutOf(r).features[key]) > 0
          /\ Cardinality(DOMAIN CutOf(r).features) = 2

----------------------------------------------------------------------------
(* The claim about rows beyond the id-range table. *)

\* The end of the last range of a table.
TableEnd(table) == table[Len(table)][2]

\* The files of the node feature i hold more rows than the table of its
\* node type covers.
ExtraRows(i) ==
    /\ IdRangesAccepted(schema_map.num_nodes_per_chunk, num_parts)
    /\ i \in 1..Len(schema_map.node_data)
    /\ SumSeq(schema_map.node_data[i].files) >
           TableEnd(TableOf("node", schema_map.node_data[i].tname))

\* The blocks rank r has stored of the node feature i.
BlocksOfFeature(r, i) ==
    { key \in DOMAIN node_features[r] :
          /\ key[1] = schema_map.node_data[i].tname
          /\ key[2] = schema_map.node_data[i].fname }

\* C23: when the arrays the ranks read of a feature hold together more rows
\* than the id-range table covers, the rows at positions at or beyond the end
\* of the last range are put in no bucket, neither sent nor kept, and are in
\* no stored block, while the rows below it are all bucketed; every stored
\* block has the size of its range, and no rank raises in the node phase:
\* neither the shuffle nor the block-size assertions fail for them.
C23_RowsBeyondTableDropped ==
    \A i \in 1..2 : ExtraRows(i) =>
        LET feat == schema_map.node_data[i]
            last == TableEnd(TableOf("node", feat.tname))
        IN  \A r \in Ranks :
                /\ (phase[r] = "node" /\ fi[r] = i /\ pc[r] = "alltoall") =>
                       /\ \A t \in Ranks :
                              \A g \in Positions(Bucket(r, t)) : g < last
                       /\ UNION { Positions(Bucket(r, t)) : t \in Ranks } =
                              { g \in Positions(data[r]) : g < last }
                /\ \A key \in BlocksOfFeature(r, i) :
                       /\ \A g \in Positions(node_features[r][key]) : g < last
                       /\ NumRows(node_features[r][key]) =
                              node_feature_tids[r][key][1][2]
                                  - node_feature_tids[r][key][1][1]
                /\ Passed(r, "node", i) =>
                       \A p \in OwnedParts(r) :
                           << feat.tname, feat.fname, p \div world_size >>
                               \in BlocksOfFeature(r, i)
                /\ pc[r] = "raised" => phase[r] # "node"

\* Two ranks have returned from a schema whose feature x holds one row more
\* than A has nodes; the rank that read the last row stored a block with
\* rows, and the row is in no block of any rank.
C23_Witness ==
    /\ world_size = 2
    /\ ExtraRows(1)
    /\ \A r \in Ranks : pc[r] = "returned"
    /\ \E r \in Ranks :
          /\ NumRows(ReadFeature(schema_map.node_data[1], r, world_size)) >= 2
          /\ TableEnd(TableOf("node", "A")) \in
                 Positions(ReadFeature(schema_map.node_data[1], r, world_size))
          /\ \E key \in BlocksOfFeature(r, 1) :
                 NumRows(node_features[r][key]) > 0

----------------------------------------------------------------------------
(* The claims about the ownership of partitions and of edge files. *)

\* The local indices of the blocks rank r has stored of a type and feature.
LocalIndices(dict, tname, fname) ==
    { key[3] : key \in { k \in DOMAIN dict : k[1] = tname /\ k[2] = fname } }

\* C24: with num_parts >= world_size every partition has exactly one owner,
\* rank p mod world_size; every rank owns at least one partition; the local
\* indices p \div world_size of the partitions of a rank are distinct and are
\* 0, 1, 2, ... without gaps; so a rank that has stored a feature holds one
\* key for each partition it owns, none written twice.
C24_OneOwnerDistinctKeys ==
    num_parts >= world_size =>
    /\ \A p \in 0..(num_parts - 1) :
          /\ map_partid_rank(p, world_size) = p % world_size
          /\ Cardinality({ r \in Ranks : p \in OwnedParts(r) }) = 1
    /\ \A r \in Ranks :
          /\ OwnedParts(r) # {}
          /\ \A p, q \in OwnedParts(r) :
                 p # q => p \div world_size # q \div world_size
          /\ { p \div world_size : p \in OwnedParts(r) } =
                 0..(Cardinality(OwnedParts(r)) - 1)
          /\ \A ph \in {"node", "edge"} :
             \A i \in 1..Len(FeatureList(ph)) :
                 LET feat == FeatureList(ph)[i]
                     stored == LocalIndices(FeaturesOf(r, ph), feat.tname,
                                            feat.fname)
                 IN  /\ stored \in { {}, 0..(Cardinality(OwnedParts(r)) - 1) }
                     /\ LocalIndices(FeatureTidsOf(r, ph), feat.tname,
                                     feat.fname) = stored
                     /\ (Shuffled(ph, i) /\ Passed(r, ph, i)) =>
                            /\ Cardinality(stored) = Cardinality(OwnedParts(r))
                            /\ \A p \in OwnedParts(r) :
                                   FeatureTidsOf(r, ph)[<< feat.tname, feat.fname,
                                                          p \div world_size >>]
                                       = << TableOf(ph, feat.tname)[p + 1] >>

\* Of three partitions rank 0 of two owns two and has stored two blocks of
\* each of two node features, and rank 1 has stored one block of each.
C24_Witness ==
    /\ world_size = 2
    /\ num_parts = 3
    /\ pc[0] = "returned"
    /\ pc[1] = "returned"
    /\ DOMAIN node_features[0] =
           { << "A", f, k >> : f \in {"x", "y"}, k \in {0, 1} }
    /\ DOMAIN node_features[1] = { << "A", f, 0 >> : f \in {"x", "y"} }

\* The partition the edge file idx of entry i is assigned to (line 543).
PartitionOfFile(i, idx) ==
    CHOOSE p \in 0..(num_parts - 1) :
        idx \in Elems(generate_read_list(Len(schema_map.edges[i].files),
                                         num_parts)[p + 1])

\* The edge rows a rank returns, as (edge type id, global source id).
ReturnedRows(r) ==
    [k \in 1..Len(edge_datadict[r].src) |->
        << edge_datadict[r].etype[k], edge_datadict[r].src[k] >>]

\* The rows the files of all edge entries hold, as (edge type id, global
\* source id).
AllEdgeRows ==
    UNION { { << (CHOOSE n \in 1..Len(schema_map.edge_type) :
                     schema_map.edge_type[n] = schema_map.edges[i].etype_name) - 1,
                 g + ntype_gnid_offset[schema_map.edges[i].etype_name[1]] >> :
                g \in 0..(SumSeq(schema_map.edges[i].files) - 1) } :
            i \in 1..Len(schema_map.edges) }

\* C25: for each edge type every file is in the reading list of exactly one
\* rank, once, and that rank is the owner of the partition the file is
\* assigned to; when all ranks have returned, the rows they return are the
\* rows of all files, each once, and a rank has made no collective call
\* besides those of the feature shuffles.
C25_EdgeFilesReadOnce ==
    /\ \A i \in 1..Len(schema_map.edges) :
       \A idx \in 0..(Len(schema_map.edges[i].files) - 1) :
           /\ SumSeq([q \in 1..world_size |->
                         Count(EdgeFilesOf(schema_map.edges[i], q - 1,
                                           world_size, num_parts), idx)]) = 1
           /\ \A r \in Ranks :
                  idx \in Elems(EdgeFilesOf(schema_map.edges[i], r, world_size,
                                            num_parts))
                      <=> r = map_partid_rank(PartitionOfFile(i, idx),
                                              world_size)
    /\ (\A r \in Ranks : pc[r] = "returned") =>
           LET rows == Flatten([q \in 1..world_size |-> ReturnedRows(q - 1)])
           IN  /\ Elems(rows) = AllEdgeRows
               /\ Len(rows) = Cardinality(AllEdgeRows)
               /\ \A r \in Ranks :
                      Len(calls[r]) = 2 * Len(ShuffledFeatures)

\* Two ranks have returned the edges of two edge types, each rank rows of
\* both, and at least one file holds two rows.
C25_Witness ==
    /\ world_size = 2
    /\ Len(schema_map.edges) = 2
    /\ \A r \in Ranks :
          /\ pc[r] = "returned"
          /\ { edge_datadict[r].etype[k] :
                   k \in 1..Len(edge_datadict[r].etype) } = {0, 1}
    /\ Cardinality(AllEdgeRows) >= 5

----------------------------------------------------------------------------
(* Termination of get_dataset.  Every rank is a process that keeps running,
   and the collective layer completes a call once every rank has made it:
   each step of a rank that stays possible is eventually taken. *)

\* Rank r can go on: it has not started yet, or it waits in a collective
\* call that every rank has made.
Runnable(r) ==
    \/ pc[r] = "start"
    \/ pc[r] \in {"all_gather", "alltoall"} /\ CollectiveReady(r, pc[r])

\* Rank r goes on: it leaves the position it is at (by Start, Scatter or
\* Collect, the only steps that move a rank).
Runs(r) ==
    /\ r \in Ranks
    /\ Runnable(r)
    /\ \E p \in {"all_gather", "alltoall", "raised", "returned"} \ {pc[r]} :
           pc' = [pc EXCEPT ![r] = p]

Fairness == \A r \in 0..(MaxWorld - 1) : WF_pc(Runs(r))

\* The schema is valid: the id-ranges can be built, node_data and edge_data
\* are there, every feature is in a known format and its files hold as many
\* rows as its type has ids, and every edge type has a canonical name, a
\* known format and one file for each chunk, with the rows of the chunk.
ValidSchema ==
    /\ IdRangesAccepted(schema_map.num_nodes_per_chunk, num_parts)
    /\ IdRangesAccepted(schema_map.num_edges_per_chunk, num_parts)
    /\ KeyAccepted("node_data")
    /\ KeyAccepted("edge_data")
    /\ \A ph \in {"node", "edge"} : \A i \in 1..Len(FeatureList(ph)) :
           /\ FormatAccepted(FeatureList(ph)[i])
           /\ Shuffled(ph, i) =>
                  SumSeq(FeatureList(ph)[i].files) =
                      TableEnd(TableOf(ph, FeatureList(ph)[i].tname))
    /\ \A i \in 1..Len(schema_map.edges) : Conforming(i)

\* Every rank starts get_dataset with the same valid schema.
LiveInit == Init /\ ValidSchema

LiveSpec == LiveInit /\ [][Next]_vars /\ Fairness

AllReturned == \A r \in Ranks : pc[r] = "returned"

\* C26: if every rank starts get_dataset with the same valid schema and the
\* collective layer completes every call that all ranks have made, every rank
\* eventually returns: no rank waits forever in an all_gather or an
\* all-to-all for a call a peer never makes.
C26_EveryRankReturns == <>AllReturned

\* Two ranks have returned from a valid schema after two shuffles, into one
\* of which a rank entered without rows.
C26_Witness ==
    /\ ValidSchema
    /\ AllReturned
    /\ world_size = 2
    /\ \A r \in Ranks : Len(calls[r]) >= 4
    /\ \E r \in Ranks : \E k \in 1..Len(calls[r]) :
          /\ calls[r][k].op = "all_gather"
          /\ calls[r][k].payload[1] = 0
    /\ \E r \in Ranks : calls[r][1].payload[1] > 0

====
